---- MODULE Spec2Model ----
(***************************************************************************)
(* A model of endorbot: the pixel classifier (get_state), the dungeon grid *)
(* (Dungeon::new, get_tiles, State::merge), the two grid searches, the     *)
(* planner (determine_action), the action executor (run_action) and the    *)
(* control loop of main.rs.                                                *)
(*                                                                         *)
(* Conventions.  Option<T> is a sequence of length at most one: None is    *)
(* <<>> and Some(v) is <<v>>.  A Vec is a sequence.  A colour is a triple  *)
(* <<r, g, b>>.  An operation that can panic returns a record with a       *)
(* `panic` field next to its value.                                       *)
(***************************************************************************)
EXTENDS Integers, Sequences, FiniteSets, TLC

None == <<>>
Some(v) == <<v>>
IsSome(o) == o # <<>>
IsNone(o) == o = <<>>
Unwrap(o) == o[1]

(***************************************************************************)
(* Bitmap: the sparse pixel sample of one tick.                            *)
(***************************************************************************)
SENTINEL == <<0, 0, 0>>

\* Bitmap::with_capacity: no pixel, no coordinate, no dead character.
EmptyInfo == [floor |-> "", coordinates |-> None]
with_capacity == [pixels |-> <<>>, has_dead_characters |-> FALSE, info |-> EmptyInfo]

\* Bitmap::get_pixel as compiled with debug assertions: a coordinate that was
\* never sampled reads as the sentinel colour.
get_pixel(image, x, y) ==
    IF <<x, y>> \in DOMAIN image.pixels THEN image.pixels[<<x, y>>] ELSE SENTINEL

\* The two ways the crate is compiled: with debug assertions (cargo build, cargo
\* test) or without them (cargo build --release).
Builds == {"debug", "release"}

\* Bitmap::get_pixel in either build.  Without debug assertions the lookup ends
\* in expect, which panics on a coordinate that was never sampled; with them it
\* ends in unwrap_or_else, which prints and answers with the sentinel colour.
get_pixel_as(build, image, x, y) ==
    IF build = "release"
    THEN IF <<x, y>> \in DOMAIN image.pixels
         THEN [panic |-> FALSE, color |-> image.pixels[<<x, y>>]]
         ELSE [panic |-> TRUE, color |-> SENTINEL]
    ELSE [panic |-> FALSE, color |-> get_pixel(image, x, y)]

\* Bitmap::set_pixel, for a coordinate not yet in the sample.
set_pixel(image, x, y, color) ==
    [image EXCEPT !.pixels = (<<x, y>> :> color) @@ @]

WHITE == <<255, 255, 255>>
CITY_1 == <<1, 0, 31>>
CITY_2 == <<3, 2, 20>>
FIGHT == <<208, 188, 255>>
FIGHT_2 == <<192, 172, 241>>
HEALTH_GREY == <<158, 158, 158>>
HEALTH_RED == <<244, 67, 54>>
HEALTH_RED_PLAYER == <<211, 47, 47>>
HEALTH_GREEN == <<56, 142, 60>>
HEALTH_ORANGE == <<245, 124, 0>>
IDLE_1 == <<202, 196, 208>>
TILE_UNEXPLORED == <<29, 27, 32>>
AD_GREY == <<202, 196, 208>>
TELEPORT_DARK == <<43, 41, 48>>
CHEST_BLUE == <<185, 207, 220>>
BUTTON_PURPLE == <<56, 30, 114>>
MARKER == <<244, 67, 54>>
MARKER_FADED == <<165, 118, 66>>

pixel_color(image, coords, color) == get_pixel(image, coords[1], coords[2]) = color
pixel_either_color(image, coords, colors) == get_pixel(image, coords[1], coords[2]) \in colors
pixels_same_color(image, pixels, color) ==
    \A i \in 1..Len(pixels) : get_pixel(image, pixels[i][1], pixels[i][2]) = color
\* each element of pixels is <<x, y, colour>>
pixels_color(image, pixels) ==
    \A i \in 1..Len(pixels) : get_pixel(image, pixels[i][1], pixels[i][2]) = pixels[i][3]

(***************************************************************************)
(* Party and enemy health.                                                 *)
(***************************************************************************)
CharacterHealth(image, i) ==
    LET y == 560 + i * 120
    IN  IF pixel_color(image, <<514, y>>, HEALTH_GREEN) THEN "Healthy"
        ELSE IF pixel_color(image, <<291, y>>, HEALTH_GREEN) THEN "Hurt"
        ELSE IF pixel_either_color(image, <<147, y>>,
                                   {HEALTH_RED_PLAYER, HEALTH_GREEN, HEALTH_ORANGE}) THEN "Low"
        ELSE IF pixel_color(image, <<147, y>>, HEALTH_GREY) THEN "Dead"
        ELSE "Unknown"

get_characters(image) == [i \in 1..4 |-> CharacterHealth(image, i - 1)]

DefaultCharacters == [i \in 1..4 |-> "Unknown"]

get_enemy(image) ==
    LET x == IF pixel_either_color(image, <<90, 1472>>, {HEALTH_RED, HEALTH_GREY}) THEN 89 ELSE 0
    IN  IF pixel_color(image, <<511 - x, 1471>>, HEALTH_RED) THEN "Healthy"
        ELSE IF pixel_color(image, <<355 - x, 1471>>, HEALTH_RED) THEN "Hurt"
        ELSE IF pixel_color(image, <<181 - x, 1471>>, HEALTH_RED) THEN "Low"
        ELSE IF pixel_color(image, <<181 - x, 1471>>, HEALTH_GREY) THEN "Dead"
        ELSE "Unknown"

(***************************************************************************)
(* Coordinates and tiles.                                                  *)
(***************************************************************************)
\* The largest u32.  The model checker's integers are 32-bit signed, so u32::MAX is
\* stood for by the largest of them: the model only uses that it exceeds every
\* coordinate of a grid and that adding one to it wraps to 0.
U32_MAX == 2147483647

Coords(x, y) == [x |-> x, y |-> y]

\* u32 arithmetic as a release build computes it: it wraps.  A debug build
\* panics where Underflows (Overflows) holds.
Sub1(v) == IF v = 0 THEN U32_MAX ELSE v - 1
Add1(v) == IF v = U32_MAX THEN 0 ELSE v + 1
Underflows(v) == v = 0
Overflows(v) == v = U32_MAX

move_direction(c, direction) ==
    CASE direction = "North" -> Coords(c.x, Sub1(c.y))
      [] direction = "East" -> Coords(Add1(c.x), c.y)
      [] direction = "South" -> Coords(c.x, Add1(c.y))
      [] direction = "West" -> Coords(Sub1(c.x), c.y)

TILE_SIZE == <<60, 60>>
TILE_START == <<536, 536>>
TILE_COUNT == <<7, 7>>

Tile(position, explored, visited, is_city, is_go_down, n, e, s, w) ==
    [explored |-> explored, trap |-> FALSE, is_city |-> is_city, is_go_down |-> is_go_down,
     visited |-> visited, position |-> position,
     north_passable |-> n, east_passable |-> e, south_passable |-> s, west_passable |-> w]

\* Tile::direction_from
direction_from(self, other) ==
    IF self.position.x = other.position.x
    THEN IF self.position.y > other.position.y THEN "South" ELSE "North"
    ELSE IF self.position.x < other.position.x THEN "West" ELSE "East"

AllGE(color, v) == \A i \in 1..3 : color[i] >= v
AllIn(color, lo, hi) == \A i \in 1..3 : color[i] >= lo /\ color[i] <= hi

is_wall(image, x, y) ==
    LET color == get_pixel(image, x, y)
        color2 == get_pixel(image, x, y + 1)
    IN  AllGE(color, 125) \/ AllGE(color2, 125) \/ AllIn(color, 40, 64) \/ AllIn(color2, 40, 64)

is_city(image, x, y) ==
    LET color == get_pixel(image, x, y)
        color2 == get_pixel(image, x + 4, y + 8)
    IN  (color = MARKER \/ color = MARKER_FADED) /\ color2 # MARKER /\ color2 # MARKER_FADED

is_go_down(image, x, y) ==
    LET color == get_pixel(image, x, y)
        color2 == get_pixel(image, x + 4, y + 8)
        color3 == get_pixel(image, x + 5, y)
        color4 == get_pixel(image, x - 5, y)
    IN  (color = MARKER \/ color = MARKER_FADED) /\ (color2 = MARKER \/ color2 = MARKER_FADED)
        /\ color3 # MARKER /\ color3 = MARKER_FADED /\ color4 = MARKER /\ color4 = MARKER_FADED

is_go_up(image, x, y) ==
    LET color == get_pixel(image, x, y)
        color2 == get_pixel(image, x + 4, y + 8)
        color3 == get_pixel(image, x + 5, y)
        color4 == get_pixel(image, x - 5, y)
    IN  (color = MARKER \/ color = MARKER_FADED) /\ color2 # MARKER /\ color2 # MARKER_FADED
        /\ (color3 = MARKER \/ color3 = MARKER_FADED) /\ (color4 = MARKER \/ color4 = MARKER_FADED)

\* The origin of the visible window: get_tiles reads the coordinate of the info it is given.
WindowBase(info) ==
    IF IsSome(info.coordinates)
    THEN <<Unwrap(info.coordinates).x - ((TILE_COUNT[1] + 1) \div 2),
           Unwrap(info.coordinates).y - ((TILE_COUNT[2] + 1) \div 2) + 1>>
    ELSE <<0, 0>>

\* Screen position of the centre of window cell (x_count, y_count).
CellCentre(x_count, y_count) ==
    <<TILE_START[1] + x_count * TILE_SIZE[1] + TILE_SIZE[1] \div 2,
      TILE_START[2] + y_count * TILE_SIZE[2] + TILE_SIZE[2] \div 2>>

\* The tile get_tiles builds for one window cell, before its skip tests.
CellTile(base, image, x_count, y_count) ==
    LET x == CellCentre(x_count, y_count)[1]
        y == CellCentre(x_count, y_count)[2]
        position == Coords(base[1] + x_count, base[2] + y_count)
    IN  Tile(position,
             ~pixel_color(image, <<x, y>>, TILE_UNEXPLORED),
             FALSE,
             is_city(image, x - 2, y),
             position # Coords(15, 15) /\ ~is_go_up(image, x - 2, y) /\ is_go_down(image, x - 2, y),
             ~is_wall(image, x, TILE_START[2] + y_count * TILE_SIZE[2] + 1),
             ~is_wall(image, TILE_START[1] + x_count * TILE_SIZE[1] + TILE_SIZE[1] - 4, y),
             ~is_wall(image, x, TILE_START[2] + y_count * TILE_SIZE[2] + TILE_SIZE[2] - 4),
             ~is_wall(image, TILE_START[1] + x_count * TILE_SIZE[1] + 1, y))

\* One iteration of the loop body of get_tiles: "skip", "push" or "panic".
CellOutcome(base, image, x_count, y_count) ==
    LET c == CellCentre(x_count, y_count)
        tile == CellTile(base, image, x_count, y_count)
    IN  IF base[1] + x_count < 0 \/ base[2] + y_count < 0 THEN "skip"
        ELSE IF pixel_color(image, c, TILE_UNEXPLORED) THEN "skip"
        ELSE IF pixel_color(image, <<TILE_START[1] + x_count * TILE_SIZE[1] + 1, c[2]>>, TILE_UNEXPLORED)
                /\ ~pixel_color(image, c, TILE_UNEXPLORED) THEN "skip"
        ELSE IF tile.position.x = 22 /\ tile.position.y = 14 /\ tile.north_passable THEN "panic"
        ELSE "push"

RECURSIVE TilesFrom(_, _, _)
\* The cells k, k+1, ... of the window in loop order (x_count outer, y_count inner).
TilesFrom(base, image, k) ==
    IF k >= TILE_COUNT[1] * TILE_COUNT[2] THEN [tiles |-> <<>>, panic |-> FALSE]
    ELSE LET x_count == k \div TILE_COUNT[2]
             y_count == k % TILE_COUNT[2]
             out == CellOutcome(base, image, x_count, y_count)
         IN  IF out = "panic" THEN [tiles |-> <<>>, panic |-> TRUE]
             ELSE LET rest == TilesFrom(base, image, k + 1)
                  IN  IF out = "skip" THEN rest
                      ELSE [tiles |-> <<CellTile(base, image, x_count, y_count)>> \o rest.tiles,
                            panic |-> rest.panic]

get_tiles(info, image) == TilesFrom(WindowBase(info), image, 0)

(***************************************************************************)
(* Dungeon: the grid model.                                                *)
(***************************************************************************)
Idle(on_city_tile) == [tag |-> "Idle", on_city_tile |-> on_city_tile, enemy |-> "Unknown"]
IdleChest == [tag |-> "IdleChest", on_city_tile |-> FALSE, enemy |-> "Unknown"]
Fight(enemy) == [tag |-> "Fight", on_city_tile |-> FALSE, enemy |-> enemy]

\* Dungeon::default
DefaultDungeon ==
    [state |-> Idle(FALSE), characters |-> DefaultCharacters, info |-> EmptyInfo, tiles |-> <<>>]

has_low_character(dungeon) == \E i \in 1..4 : dungeon.characters[i] = "Low"
has_dead_character(dungeon) == \E i \in 1..4 : dungeon.characters[i] = "Dead"

\* Dungeon::set_tile_visited
set_tile_visited(tiles, x, y) ==
    [i \in 1..Len(tiles) |->
        IF tiles[i].position.x = x /\ tiles[i].position.y = y
        THEN [tiles[i] EXCEPT !.visited = TRUE] ELSE tiles[i]]

\* clear_visited that clears nothing.
clear_visited_none(tiles) == tiles

\* Dungeon::clear_visited
clear_visited(tiles) == [i \in 1..Len(tiles) |-> [tiles[i] EXCEPT !.visited = FALSE]]

\* The info Dungeon::new stores: the sample's, or the previous position as a fallback.
NewInfo(image, old_position) ==
    IF IsSome(image.info.coordinates) THEN image.info
    ELSE [floor |-> image.info.floor, coordinates |-> old_position]

\* Dungeon::new.  The tiles are built from the sample's own info.
DungeonNew(state, image, old_position) ==
    LET info == NewInfo(image, old_position)
        built == get_tiles(image.info, image)
    IN  [panic |-> built.panic,
         dungeon |-> [state |-> state,
                      characters |-> get_characters(image),
                      info |-> info,
                      tiles |-> IF IsSome(info.coordinates)
                                THEN set_tile_visited(built.tiles, Unwrap(info.coordinates).x,
                                                      Unwrap(info.coordinates).y)
                                ELSE built.tiles]]

\* The tile Dungeon::get_tile makes up for a position that is not in the grid.
OpenTile(x, y) == Tile(Coords(x, y), FALSE, FALSE, FALSE, FALSE, TRUE, TRUE, TRUE, TRUE)

\* Index of the first tile at (x, y), 0 if there is none.
TileIndex(tiles, x, y) ==
    IF \E i \in 1..Len(tiles) : tiles[i].position = Coords(x, y)
    THEN CHOOSE i \in 1..Len(tiles) :
            /\ tiles[i].position = Coords(x, y)
            /\ \A j \in 1..(i - 1) : tiles[j].position # Coords(x, y)
    ELSE 0

\* Dungeon::get_tile
get_tile(dungeon, x, y) ==
    LET i == TileIndex(dungeon.tiles, x, y)
    IN  IF i = 0 THEN OpenTile(x, y) ELSE dungeon.tiles[i]

\* First tile of the Vec satisfying a marker, as an Option.
FirstWith(tiles, P(_)) ==
    IF \E i \in 1..Len(tiles) : P(tiles[i])
    THEN Some(tiles[CHOOSE i \in 1..Len(tiles) : P(tiles[i]) /\ \A j \in 1..(i - 1) : ~P(tiles[j])])
    ELSE None

IsCityTile(t) == t.is_city
IsGoDownTile(t) == t.is_go_down

get_city_tile(dungeon) == FirstWith(dungeon.tiles, IsCityTile)
get_go_down_tile(dungeon) == FirstWith(dungeon.tiles, IsGoDownTile)

(***************************************************************************)
(* State and State::merge.                                                 *)
(***************************************************************************)
StateType(tag) == [tag |-> tag, has_dead |-> FALSE]
City(has_dead) == [tag |-> "City", has_dead |-> has_dead]

\* impl Into<State> for StateType: the dungeon is the default one.
IntoState(state_type) == [state_type |-> state_type, dungeon |-> DefaultDungeon]
\* impl Into<State> for (StateType, Dungeon)
IntoStateWith(state_type, dungeon) == [state_type |-> state_type, dungeon |-> dungeon]

\* State::default
DefaultState == [state_type |-> StateType("Main"), dungeon |-> DefaultDungeon]

get_position(state) == state.dungeon.info.coordinates

set_position(state, new_position) ==
    [state EXCEPT !.dungeon.info.coordinates = Some(new_position)]

\* The loop body of State::merge with one step altered: "visited_from_old"
\* overwrites visited with the flag of the old tile, "always_push" never looks
\* the position up, "markers_always" takes the markers of the old tile whether
\* or not the new grid has its own, "drop_unknown" leaves out the old tiles
\* the new grid has no tile for.
MergeTile_faulty(tiles, tile, has_city, has_down, fault) ==
    LET i == IF fault = "always_push" THEN 0
             ELSE TileIndex(tiles, tile.position.x, tile.position.y)
        no_city == ~has_city \/ fault = "markers_always"
        no_down == ~has_down \/ fault = "markers_always"
    IN  IF i # 0
        THEN [tiles EXCEPT ![i] = [@ EXCEPT
                  !.is_city = IF no_city THEN tile.is_city \/ @ ELSE @,
                  !.is_go_down = IF no_down THEN tile.is_go_down \/ @ ELSE @,
                  !.visited = IF fault = "visited_from_old" THEN tile.visited
                              ELSE tile.visited \/ @]]
        ELSE IF fault = "drop_unknown" THEN tiles
        ELSE Append(tiles, [tile EXCEPT
                              !.is_city = IF no_city THEN @ ELSE FALSE,
                              !.is_go_down = IF no_down THEN @ ELSE FALSE])

MergeTile_visited_from_old(tiles, tile, has_city, has_down) ==
    MergeTile_faulty(tiles, tile, has_city, has_down, "visited_from_old")

MergeTile_always_push(tiles, tile, has_city, has_down) ==
    MergeTile_faulty(tiles, tile, has_city, has_down, "always_push")

MergeTile_markers_always(tiles, tile, has_city, has_down) ==
    MergeTile_faulty(tiles, tile, has_city, has_down, "markers_always")

MergeTile_drop_unknown(tiles, tile, has_city, has_down) ==
    MergeTile_faulty(tiles, tile, has_city, has_down, "drop_unknown")

\* One iteration of the loop of State::merge: fold one old tile into the tiles so far.
MergeTile(tiles, tile, has_city, has_down) ==
    LET i == TileIndex(tiles, tile.position.x, tile.position.y)
    IN  IF i # 0
        THEN [tiles EXCEPT
                ![i] = [@ EXCEPT
                          !.is_city = IF ~has_city THEN tile.is_city \/ @ ELSE @,
                          !.is_go_down = IF ~has_down THEN tile.is_go_down \/ @ ELSE @,
                          !.visited = tile.visited \/ @]]
        ELSE Append(tiles, [tile EXCEPT
                              !.is_city = IF ~has_city THEN @ ELSE FALSE,
                              !.is_go_down = IF ~has_down THEN @ ELSE FALSE])

RECURSIVE MergeTiles(_, _, _, _, _)
MergeTiles(tiles, old_tiles, k, has_city, has_down) ==
    IF k > Len(old_tiles) THEN tiles
    ELSE MergeTiles(MergeTile(tiles, old_tiles[k], has_city, has_down), old_tiles, k + 1,
                    has_city, has_down)

\* merge that pushes every old tile, whether or not the new grid has the position.
merge_concat(self, old) ==
    [self EXCEPT !.dungeon.tiles = @ \o old.dungeon.tiles]

\* State::merge: self is the freshly built state, old the previous tick's.
merge(self, old) ==
    LET city_tile == FirstWith(self.dungeon.tiles, IsCityTile)
        down_tile == FirstWith(self.dungeon.tiles, IsGoDownTile)
    IN  [self EXCEPT !.dungeon.tiles =
            MergeTiles(self.dungeon.tiles, old.dungeon.tiles, 1, IsSome(city_tile), IsSome(down_tile))]

(***************************************************************************)
(* get_state: the classifier.                                              *)
(***************************************************************************)
AdPredicate(image) ==
    pixels_same_color(image, <<<<918, 138>>, <<949, 138>>, <<919, 168>>, <<949, 168>>>>, AD_GREY)

TeleportPredicate(image) ==
    pixels_same_color(image, <<<<911, 940>>, <<155, 940>>, <<919, 168>>, <<949, 168>>>>, TELEPORT_DARK)

IdleChestPredicate(image) ==
    /\ pixel_color(image, <<466, 1116>>, CHEST_BLUE)
    /\ pixels_same_color(image, <<<<690, 1306>>, <<717, 1326>>>>, BUTTON_PURPLE)

FightPredicate(image) ==
    /\ IsNone(image.info.coordinates)
    /\ \/ pixel_either_color(image, <<827, 1306>>, {FIGHT, FIGHT_2})
       \/ pixel_either_color(image, <<827, 1260>>, {FIGHT, FIGHT_2})
    /\ ~pixel_color(image, <<671, 1309>>, BUTTON_PURPLE)

IdlePredicate(image) ==
    pixel_color(image, <<979, 1083>>, IDLE_1) /\ pixel_color(image, <<1023, 1116>>, IDLE_1)

OnCityTile(image) ==
    /\ pixel_color(image, <<716, 1279>>, FIGHT)
    /\ ~pixels_same_color(image, <<<<642, 1201>>, <<608, 1307>>, <<609, 1329>>>>, BUTTON_PURPLE)

CityPredicate(image) ==
    pixels_color(image, <<<<752, 1926, CITY_1>>, <<75, 1512, CITY_2>>>>)

MainPredicate(image) ==
    pixels_same_color(image, <<<<462, 1254>>, <<536, 1262>>, <<615, 1270>>>>, WHITE)

\* A result of get_state: Ok(state), Err(UnknownState) or a panic inside get_tiles.
Ok(state) == [result |-> "Ok", state |-> state]
ErrUnknownState == [result |-> "UnknownState", state |-> DefaultState]
Panicked == [result |-> "Panic", state |-> DefaultState]

\* A Dungeon variant: Dungeon::new on the sample, merged with the old state.
DungeonResult(dungeon_state, old_state, image) ==
    LET new == DungeonNew(dungeon_state, image, get_position(old_state))
    IN  IF new.panic THEN Panicked
        ELSE Ok(merge(IntoStateWith(StateType("Dungeon"), new.dungeon), old_state))

\* get_state falling back on the Main variant where no predicate matches.
get_state_default(old_state, image) ==
    IF AdPredicate(image) THEN Ok(merge(IntoState(StateType("Ad")), old_state))
    ELSE IF TeleportPredicate(image) THEN Ok(merge(IntoState(StateType("TeleportToCity")), old_state))
    ELSE IF IdleChestPredicate(image) THEN DungeonResult(IdleChest, old_state, image)
    ELSE IF FightPredicate(image) THEN DungeonResult(Fight(get_enemy(image)), old_state, image)
    ELSE IF IdlePredicate(image) THEN DungeonResult(Idle(OnCityTile(image)), old_state, image)
    ELSE IF CityPredicate(image) THEN Ok(merge(IntoState(City(image.has_dead_characters)), old_state))
    ELSE Ok(merge(IntoState(StateType("Main")), old_state))

\* get_state with the Idle predicate tried before the Fight predicate.
get_state_idle_first(old_state, image) ==
    IF AdPredicate(image) THEN Ok(merge(IntoState(StateType("Ad")), old_state))
    ELSE IF TeleportPredicate(image) THEN Ok(merge(IntoState(StateType("TeleportToCity")), old_state))
    ELSE IF IdleChestPredicate(image) THEN DungeonResult(IdleChest, old_state, image)
    ELSE IF IdlePredicate(image) THEN DungeonResult(Idle(OnCityTile(image)), old_state, image)
    ELSE IF FightPredicate(image) THEN DungeonResult(Fight(get_enemy(image)), old_state, image)
    ELSE IF CityPredicate(image) THEN Ok(merge(IntoState(City(image.has_dead_characters)), old_state))
    ELSE IF MainPredicate(image) THEN Ok(merge(IntoState(StateType("Main")), old_state))
    ELSE ErrUnknownState

get_state(old_state, image) ==
    IF AdPredicate(image) THEN Ok(merge(IntoState(StateType("Ad")), old_state))
    ELSE IF TeleportPredicate(image) THEN Ok(merge(IntoState(StateType("TeleportToCity")), old_state))
    ELSE IF AdPredicate(image) THEN Ok(merge(IntoState(StateType("Ad")), old_state))
    ELSE IF IdleChestPredicate(image) THEN DungeonResult(IdleChest, old_state, image)
    ELSE IF FightPredicate(image) THEN DungeonResult(Fight(get_enemy(image)), old_state, image)
    ELSE IF IdlePredicate(image) THEN DungeonResult(Idle(OnCityTile(image)), old_state, image)
    ELSE IF CityPredicate(image) THEN Ok(merge(IntoState(City(image.has_dead_characters)), old_state))
    ELSE IF MainPredicate(image) THEN Ok(merge(IntoState(StateType("Main")), old_state))
    ELSE ErrUnknownState

(***************************************************************************)
(* The two grid searches.  astar is the pathfinding crate's: all the model *)
(* takes from it is that it returns a minimum-cost path when one exists    *)
(* and None otherwise; which of several minimum paths it returns is left   *)
(* open, so the searches return the set of tiles astar could return (the   *)
(* empty set is None).                                                     *)
(***************************************************************************)
PLAYFIELD_MAX == 29

\* A `let` of the source: body applied to the value bound.
Let(value, body(_)) == body(value)

\* GoalSuccessors without the bound 29 on the steps east and south.
GoalSuccessors_unbounded(dungeon, pos) ==
    LET tile == get_tile(dungeon, pos.x, pos.y)
    IN  (IF tile.north_passable /\ pos.y > 0 THEN {Coords(pos.x, pos.y - 1)} ELSE {})
        \cup (IF tile.east_passable THEN {Coords(pos.x + 1, pos.y)} ELSE {})
        \cup (IF tile.south_passable THEN {Coords(pos.x, pos.y + 1)} ELSE {})
        \cup (IF tile.west_passable /\ pos.x > 0 THEN {Coords(pos.x - 1, pos.y)} ELSE {})

\* The closure `successors` of get_next_tile_to_goal.
GoalSuccessors(dungeon, pos) ==
    LET tile == get_tile(dungeon, pos.x, pos.y)
    IN  (IF tile.north_passable /\ pos.y > 0 THEN {Coords(pos.x, pos.y - 1)} ELSE {})
        \cup (IF tile.east_passable /\ pos.x < PLAYFIELD_MAX THEN {Coords(pos.x + 1, pos.y)} ELSE {})
        \cup (IF tile.south_passable /\ pos.y < PLAYFIELD_MAX THEN {Coords(pos.x, pos.y + 1)} ELSE {})
        \cup (IF tile.west_passable /\ pos.x > 0 THEN {Coords(pos.x - 1, pos.y)} ELSE {})

\* The closure `successors` of get_closest_unvisited_tile.
UnvisitedSuccessors(dungeon, pos) ==
    LET tile == get_tile(dungeon, pos.x, pos.y)
    IN  (IF tile.north_passable /\ pos.y > 0 THEN {Coords(pos.x, pos.y - 1)} ELSE {})
        \cup (IF tile.east_passable THEN {Coords(pos.x + 1, pos.y)} ELSE {})
        \cup (IF tile.south_passable THEN {Coords(pos.x, pos.y + 1)} ELSE {})
        \cup (IF tile.west_passable /\ pos.x > 0 THEN {Coords(pos.x - 1, pos.y)} ELSE {})

Max(a, b) == IF a >= b THEN a ELSE b

\* The positions with a goal-search edge into pos.  hx, hy bound the positions
\* looked at: no goal-search path from a start within them leaves them.
GoalPredecessors(dungeon, pos, hx, hy) ==
    {p \in {Coords(pos.x, pos.y + 1), Coords(pos.x - 1, pos.y),
            Coords(pos.x, pos.y - 1), Coords(pos.x + 1, pos.y)} :
        /\ p.x >= 0 /\ p.y >= 0 /\ p.x <= hx /\ p.y <= hy
        /\ pos \in GoalSuccessors(dungeon, p)}

RECURSIVE GoalSearch(_, _, _, _, _, _, _, _, _)
\* Breadth-first from the start (front, seen) and, in step, backwards from the
\* goal (back, backSeen): the length of a shortest path, or -1 when either
\* side runs out of positions before they meet.
GoalSearch(dungeon, goal, hx, hy, front, seen, back, backSeen, k) ==
    IF goal \in front THEN k
    ELSE IF front = {} \/ back = {} THEN -1
    ELSE Let((UNION {GoalSuccessors(dungeon, p) : p \in front}) \ seen, LAMBDA next :
         Let((UNION {GoalPredecessors(dungeon, p, hx, hy) : p \in back}) \ backSeen, LAMBDA prev :
         GoalSearch(dungeon, goal, hx, hy, next, seen \cup next, prev, backSeen \cup prev, k + 1)))

\* Cost of the path astar finds from `from` to `goal`, -1 if it finds none.
PathCost(dungeon, from, goal) ==
    GoalSearch(dungeon, goal, Max(PLAYFIELD_MAX, from.x), Max(PLAYFIELD_MAX, from.y),
               {from}, {from}, {goal}, {goal}, 0)

\* The heuristic of the goal search, lines 601-603.
manhattan(a, b) ==
    (IF a.x >= b.x THEN a.x - b.x ELSE b.x - a.x) + (IF a.y >= b.y THEN a.y - b.y ELSE b.y - a.y)

\* get_next_tile_to_goal answering with the tile before the goal (the `l` of
\* line 636) instead of the tile after the start.
get_next_tile_to_goal_penultimate(dungeon, current_tile, goal) ==
    IF current_tile.position = goal.position THEN {current_tile}
    ELSE Let(PathCost(dungeon, current_tile.position, goal.position), LAMBDA cost :
         IF cost < 0 THEN {}
         ELSE {get_tile(dungeon, s.x, s.y) :
                 s \in {n \in GoalPredecessors(dungeon, goal.position,
                                               Max(PLAYFIELD_MAX, current_tile.position.x),
                                               Max(PLAYFIELD_MAX, current_tile.position.y)) :
                            PathCost(dungeon, current_tile.position, n) = cost - 1}})

\* Dungeon::get_next_tile_to_goal: the tiles that are second on some shortest path.
get_next_tile_to_goal(dungeon, current_tile, goal) ==
    IF current_tile.position = goal.position THEN {current_tile}
    ELSE Let(PathCost(dungeon, current_tile.position, goal.position), LAMBDA cost :
         IF cost < 0 THEN {}
         ELSE {get_tile(dungeon, s.x, s.y) :
                 s \in {n \in GoalSuccessors(dungeon, current_tile.position) :
                            PathCost(dungeon, n, goal.position) = cost - 1}})

RECURSIVE UnexploredSearch(_, _, _)
\* The search with the goal test commented out at line 686: a tile that is
\* not explored.
UnexploredSearch(dungeon, front, seen) ==
    Let({p \in front : ~get_tile(dungeon, p.x, p.y).explored}, LAMBDA goals :
    IF goals # {} THEN goals
    ELSE IF front = {} THEN {}
    ELSE Let((UNION {UnvisitedSuccessors(dungeon, p) : p \in front}) \ seen, LAMBDA next :
         UnexploredSearch(dungeon, next, seen \cup next)))

get_closest_unvisited_tile_unexplored(dungeon, current_tile) ==
    {get_tile(dungeon, p.x, p.y) :
        p \in UnexploredSearch(dungeon, {current_tile.position}, {current_tile.position})}

RECURSIVE UnvisitedSearch(_, _, _)
\* Breadth-first layers from the start: the first layer holding an unvisited
\* position gives the candidates, an empty layer gives none.
UnvisitedSearch(dungeon, front, seen) ==
    Let({p \in front : ~get_tile(dungeon, p.x, p.y).visited}, LAMBDA goals :
    IF goals # {} THEN goals
    ELSE IF front = {} THEN {}
    ELSE Let((UNION {UnvisitedSuccessors(dungeon, p) : p \in front}) \ seen, LAMBDA next :
         UnvisitedSearch(dungeon, next, seen \cup next)))

\* Dungeon::get_closest_unvisited_tile
get_closest_unvisited_tile(dungeon, current_tile) ==
    {get_tile(dungeon, p.x, p.y) :
        p \in UnvisitedSearch(dungeon, {current_tile.position}, {current_tile.position})}

(***************************************************************************)
(* Target selection.  A choice made with rand is the set of tiles it can   *)
(* return; `panic` says that the call can panic (in some build).           *)
(***************************************************************************)
\* Dungeon::get_current_tile, where the position is known.
get_current_tile(dungeon) ==
    get_tile(dungeon, Unwrap(dungeon.info.coordinates).x, Unwrap(dungeon.info.coordinates).y)

\* Dungeon::has_unexplored_neighbour
has_unexplored_neighbour(dungeon, tile) ==
    \/ tile.north_passable /\ tile.position.y > 0
         /\ ~get_tile(dungeon, tile.position.x, tile.position.y - 1).explored
    \/ tile.south_passable /\ ~get_tile(dungeon, tile.position.x, tile.position.y + 1).explored
    \/ tile.east_passable /\ ~get_tile(dungeon, tile.position.x + 1, tile.position.y).explored
    \/ tile.west_passable /\ tile.position.x > 0
         /\ ~get_tile(dungeon, tile.position.x - 1, tile.position.y).explored

\* The neighbours get_random_tile_from_current collects, in its order N, E, S, W.
NeighbourCandidates(dungeon, current) ==
    LET keep(t) == ~t.is_city /\ ~t.is_go_down
        n == get_tile(dungeon, current.position.x, Sub1(current.position.y))
        e == get_tile(dungeon, Add1(current.position.x), current.position.y)
        s == get_tile(dungeon, current.position.x, Add1(current.position.y))
        w == get_tile(dungeon, Sub1(current.position.x), current.position.y)
    IN  (IF current.north_passable /\ keep(n) THEN <<n>> ELSE <<>>)
        \o (IF current.east_passable /\ keep(e) THEN <<e>> ELSE <<>>)
        \o (IF current.south_passable /\ keep(s) THEN <<s>> ELSE <<>>)
        \o (IF current.west_passable /\ keep(w) THEN <<w>> ELSE <<>>)

\* The filter of the RandomTarget::Unexplored arm (its || chain, left to right).
LeadsToUnexplored(dungeon, tile) ==
    \/ tile.north_passable /\ ~get_tile(dungeon, tile.position.x, Sub1(tile.position.y)).explored
    \/ tile.south_passable /\ ~get_tile(dungeon, tile.position.x, Add1(tile.position.y)).explored
    \/ tile.east_passable /\ ~get_tile(dungeon, Add1(tile.position.x), tile.position.y).explored
    \/ tile.west_passable /\ ~get_tile(dungeon, Sub1(tile.position.x), tile.position.y).explored

\* Whether evaluating that filter on tile subtracts from 0 or adds to u32::MAX.
FilterOverflows(dungeon, tile) ==
    LET north == tile.north_passable
                 /\ ~get_tile(dungeon, tile.position.x, Sub1(tile.position.y)).explored
        south == tile.south_passable
                 /\ ~get_tile(dungeon, tile.position.x, Add1(tile.position.y)).explored
        east == tile.east_passable
                /\ ~get_tile(dungeon, Add1(tile.position.x), tile.position.y).explored
    IN  \/ tile.north_passable /\ Underflows(tile.position.y)
        \/ ~north /\ tile.south_passable /\ Overflows(tile.position.y)
        \/ ~north /\ ~south /\ tile.east_passable /\ Overflows(tile.position.x)
        \/ ~north /\ ~south /\ ~east /\ tile.west_passable /\ Underflows(tile.position.x)

SeqToSet(seq) == {seq[i] : i \in 1..Len(seq)}

\* Dungeon::get_random_tile_from_current, for a dungeon whose position is known.
get_random_tile_from_current(dungeon, avoid_position, random_target) ==
    Let(get_current_tile(dungeon), LAMBDA current :
    Let(NeighbourCandidates(dungeon, current), LAMBDA collected :
    Let(IF Len(collected) > 1 /\ IsSome(avoid_position)
        THEN SelectSeq(collected, LAMBDA t : t.position # Unwrap(avoid_position))
        ELSE collected, LAMBDA tiles :
    Let(SelectSeq(tiles, LAMBDA t : LeadsToUnexplored(dungeon, t)), LAMBDA unexplored_tiles :
    Let(IF Len(tiles) > 1
        THEN CASE random_target = "GoDown" ->
                    IF IsSome(FirstWith(tiles, IsGoDownTile))
                    THEN FirstWith(tiles, IsGoDownTile) ELSE tiles
               [] random_target = "City" ->
                    IF IsSome(FirstWith(tiles, IsCityTile))
                    THEN FirstWith(tiles, IsCityTile) ELSE tiles
               [] random_target = "Unexplored" ->
                    IF unexplored_tiles # <<>> THEN unexplored_tiles ELSE tiles
        ELSE tiles, LAMBDA final :
    Let(\/ current.north_passable /\ Underflows(current.position.y)
        \/ current.east_passable /\ Overflows(current.position.x)
        \/ current.south_passable /\ Overflows(current.position.y)
        \/ current.west_passable /\ Underflows(current.position.x)
        \/ /\ Len(tiles) > 1 /\ random_target = "Unexplored"
           /\ \E i \in 1..Len(tiles) : FilterOverflows(dungeon, tiles[i]), LAMBDA wraps :
    [tiles |-> SeqToSet(final), panic |-> wraps \/ final = <<>>]))))))

\* Dungeon::get_unexplored_tile, for a dungeon whose position is known.
get_unexplored_tile(dungeon, old_position) ==
    Let(get_current_tile(dungeon), LAMBDA me :
    Let(get_closest_unvisited_tile(dungeon, me), LAMBDA closest :
    Let(get_tile(dungeon, me.position.x - 1, me.position.y), LAMBDA west :
    Let(get_tile(dungeon, me.position.x + 1, me.position.y), LAMBDA east :
    Let(get_tile(dungeon, me.position.x, me.position.y - 1), LAMBDA north :
    Let(get_tile(dungeon, me.position.x, me.position.y + 1), LAMBDA south :
    Let({t \in SeqToSet(dungeon.tiles) : has_unexplored_neighbour(dungeon, t)}, LAMBDA frontier :
    IF closest # {} THEN [tiles |-> closest, panic |-> FALSE]
    ELSE IF me.west_passable /\ me.position.x > 0 /\ ~west.explored
         THEN [tiles |-> {west}, panic |-> FALSE]
    ELSE IF me.east_passable /\ ~east.explored THEN [tiles |-> {east}, panic |-> FALSE]
    ELSE IF me.north_passable /\ me.position.y > 0 /\ ~north.explored
         THEN [tiles |-> {north}, panic |-> FALSE]
    ELSE IF me.south_passable /\ ~south.explored THEN [tiles |-> {south}, panic |-> FALSE]
    ELSE IF frontier # {} THEN [tiles |-> frontier, panic |-> FALSE]
    ELSE get_random_tile_from_current(dungeon, old_position, "Unexplored"))))))))

(***************************************************************************)
(* determine_action: the planner.  Its value is the set of outcomes the    *)
(* call can have: the actions it can return, and Panic if it can panic.    *)
(***************************************************************************)
Act(tag) == [tag |-> tag, direction |-> "North", target |-> None, ticks |-> 0, on_city_tile |-> FALSE]
FindFight(direction, tile, ticks) ==
    [tag |-> "FindFight", direction |-> direction, target |-> Some(tile), ticks |-> ticks,
     on_city_tile |-> FALSE]
ReturnToTown(on_city_tile, direction) ==
    [tag |-> "ReturnToTown", direction |-> direction, target |-> None, ticks |-> 0,
     on_city_tile |-> on_city_tile]
Panic == Act("Panic")

STUCK_LIMIT == 30

\* The retreat shared by the Idle and the Fight arm: head for the city tile, or
\* for a random neighbour when it is unknown or no path leads there.
HeadForCity(dungeon) ==
    IF IsNone(dungeon.info.coordinates) THEN {Panic}
    ELSE Let(get_current_tile(dungeon), LAMBDA current :
         Let(get_city_tile(dungeon), LAMBDA city_tile :
         Let(IF IsSome(city_tile)
             THEN get_next_tile_to_goal(dungeon, current, Unwrap(city_tile)) ELSE {}, LAMBDA next :
         Let(get_random_tile_from_current(dungeon, None, "City"), LAMBDA random :
         IF next # {}
         THEN {ReturnToTown(FALSE, direction_from(t, current)) : t \in next}
         ELSE {ReturnToTown(FALSE, direction_from(t, current)) : t \in random.tiles}
              \cup (IF random.panic THEN {Panic} ELSE {})))))

\* FirstTarget with the counter carried over unchanged.
FirstTarget_SameCounter(dungeon, last_action, old_position) ==
    Let(get_current_tile(dungeon), LAMBDA current :
    Let(get_unexplored_tile(dungeon, old_position), LAMBDA picked :
    IF last_action.tag = "FindFight"
       /\ Unwrap(last_action.target).position # current.position
    THEN [targets |-> {<<Unwrap(last_action.target), last_action.ticks>>}, panic |-> FALSE]
    ELSE [targets |-> {<<t, 1>> : t \in picked.tiles}, panic |-> picked.panic]))

\* The target and counter chosen from last_action (lines 1013-1026): a set of
\* <<tile, ticks_same_target>> and whether choosing can panic.
FirstTarget(dungeon, last_action, old_position) ==
    Let(get_current_tile(dungeon), LAMBDA current :
    Let(get_unexplored_tile(dungeon, old_position), LAMBDA picked :
    IF last_action.tag = "FindFight"
       /\ Unwrap(last_action.target).position # current.position
    THEN [targets |-> {<<Unwrap(last_action.target), last_action.ticks + 1>>}, panic |-> FALSE]
    ELSE [targets |-> {<<t, 1>> : t \in picked.tiles}, panic |-> picked.panic]))

\* StuckTarget without the re-pick: the counter is kept whatever it has reached.
StuckTarget_never(dungeon, old_position, first) == first

\* The re-pick after too many ticks on one target (lines 1028-1034).
StuckTarget(dungeon, old_position, first) ==
    Let(get_unexplored_tile(dungeon, old_position), LAMBDA picked :
    Let({c \in first.targets : c[2] > STUCK_LIMIT}, LAMBDA stuck :
    IF stuck = {} THEN first
    ELSE [targets |-> (first.targets \ stuck) \cup {<<t, 1>> : t \in picked.tiles},
          panic |-> first.panic \/ picked.panic]))

\* The staircase-down preemption (lines 1036-1046) of one <<tile, ticks>>.
Preempt(dungeon, c) ==
    Let(get_go_down_tile(dungeon), LAMBDA go_down_tile :
    IF IsSome(go_down_tile) /\ Unwrap(go_down_tile).position # c[1].position
    THEN <<Unwrap(go_down_tile), 1>> ELSE c)

\* The action built for the final <<tile, ticks>> (lines 1048-1055).
StepTowards(dungeon, c) ==
    Let(get_current_tile(dungeon), LAMBDA current :
    Let(get_next_tile_to_goal(dungeon, current, c[1]), LAMBDA next :
    Let(get_random_tile_from_current(dungeon, None, "Unexplored"), LAMBDA random :
    IF next # {}
    THEN {FindFight(direction_from(t, current), c[1], c[2]) : t \in next}
    ELSE {FindFight(direction_from(t, current), t, 0) : t \in random.tiles}
         \cup (IF random.panic THEN {Panic} ELSE {}))))

\* Explore without the early GoDown return of lines 1008-1012.
Explore_NoGoDown(dungeon, last_action, old_position) ==
    IF IsNone(dungeon.info.coordinates) THEN {Panic}
    ELSE Let(StuckTarget(dungeon, old_position,
                         FirstTarget(dungeon, last_action, old_position)), LAMBDA chosen :
         (UNION {StepTowards(dungeon, Preempt(dungeon, c)) : c \in chosen.targets})
         \cup (IF chosen.panic THEN {Panic} ELSE {}))

\* The arm DungeonState::Idle without a dead character (lines 1006-1056).
Explore(dungeon, last_action, old_position) ==
    IF IsNone(dungeon.info.coordinates) THEN {Panic}
    ELSE Let(get_current_tile(dungeon), LAMBDA current :
         Let(get_go_down_tile(dungeon), LAMBDA go_down_tile :
         Let(StuckTarget(dungeon, old_position,
                         FirstTarget(dungeon, last_action, old_position)), LAMBDA chosen :
         IF IsSome(go_down_tile) /\ Unwrap(go_down_tile).position = current.position
         THEN {Act("GoDown")}
         ELSE (UNION {StepTowards(dungeon, Preempt(dungeon, c)) : c \in chosen.targets})
              \cup (IF chosen.panic THEN {Panic} ELSE {}))))

\* determine_action with one arm altered: "no_city_tile_test" drops the
\* on_city_tile test of line 981, "city_reads_party" decides the City arm from
\* the party instead of the flag of the state type, "teleport_swapped" swaps
\* the two answers of the TeleportToCity arm.
determine_action_faulty(state, last_action, old_position, fault) ==
    LET dungeon == state.dungeon
    IN  CASE state.state_type.tag = "Ad" -> {Act("CloseAd")}
          [] state.state_type.tag = "TeleportToCity" ->
               IF has_dead_character(dungeon) = (fault # "teleport_swapped")
               THEN {Act("TeleportToCity")}
               ELSE {Act("CancelTeleportToCity")}
          [] state.state_type.tag = "Main" -> {Act("GotoTown")}
          [] state.state_type.tag = "City" ->
               IF (IF fault = "city_reads_party" THEN has_dead_character(dungeon)
                   ELSE state.state_type.has_dead)
               THEN {Act("Resurrect")} ELSE {Act("GotoDungeon")}
          [] state.state_type.tag = "Dungeon" ->
               CASE dungeon.state.tag = "Idle" ->
                      IF has_dead_character(dungeon)
                      THEN IF dungeon.state.on_city_tile /\ fault # "no_city_tile_test"
                           THEN {ReturnToTown(TRUE, "East")}
                           ELSE HeadForCity(dungeon)
                      ELSE Explore(dungeon, last_action, old_position)
                 [] dungeon.state.tag = "IdleChest" -> {Act("OpenChest")}
                 [] dungeon.state.tag = "Fight" ->
                      IF (FALSE /\ has_low_character(dungeon)) \/ has_dead_character(dungeon)
                      THEN HeadForCity(dungeon)
                      ELSE {Act("Fight")}

determine_action_no_city_tile_test(state, last_action, old_position) ==
    determine_action_faulty(state, last_action, old_position, "no_city_tile_test")

determine_action_city_reads_party(state, last_action, old_position) ==
    determine_action_faulty(state, last_action, old_position, "city_reads_party")

determine_action_teleport_swapped(state, last_action, old_position) ==
    determine_action_faulty(state, last_action, old_position, "teleport_swapped")

determine_action(state, last_action, old_position) ==
    LET dungeon == state.dungeon
    IN  CASE state.state_type.tag = "Ad" -> {Act("CloseAd")}
          [] state.state_type.tag = "TeleportToCity" ->
               IF has_dead_character(dungeon) THEN {Act("TeleportToCity")}
               ELSE {Act("CancelTeleportToCity")}
          [] state.state_type.tag = "Main" -> {Act("GotoTown")}
          [] state.state_type.tag = "City" ->
               IF state.state_type.has_dead THEN {Act("Resurrect")} ELSE {Act("GotoDungeon")}
          [] state.state_type.tag = "Dungeon" ->
               CASE dungeon.state.tag = "Idle" ->
                      IF has_dead_character(dungeon)
                      THEN IF dungeon.state.on_city_tile
                           THEN {ReturnToTown(TRUE, "East")}
                           ELSE HeadForCity(dungeon)
                      ELSE Explore(dungeon, last_action, old_position)
                 [] dungeon.state.tag = "IdleChest" -> {Act("OpenChest")}
                 [] dungeon.state.tag = "Fight" ->
                      IF (FALSE /\ has_low_character(dungeon)) \/ has_dead_character(dungeon)
                      THEN HeadForCity(dungeon)
                      ELSE {Act("Fight")}

(***************************************************************************)
(* run_action: the action executor.                                        *)
(***************************************************************************)
\* Whether move_direction wraps (a debug build panics there).
MoveWraps(c, direction) ==
    \/ direction = "North" /\ Underflows(c.y)
    \/ direction = "West" /\ Underflows(c.x)
    \/ direction = "East" /\ Overflows(c.x)
    \/ direction = "South" /\ Overflows(c.y)

\* run_action: the state it leaves, the position it returns, whether it panics
\* (no position to move from) and whether the move wraps (a panic in a debug build).
run_action(state, action) ==
    LET moved == IF IsSome(get_position(state))
                 THEN Some(move_direction(Unwrap(get_position(state)), action.direction))
                 ELSE None
        moves == action.tag = "FindFight"
                 \/ (action.tag = "ReturnToTown" /\ ~action.on_city_tile)
    IN  [state |-> CASE action.tag = "GotoDungeon" ->
                          [state EXCEPT !.dungeon.tiles = clear_visited(@)]
                     [] action.tag = "GoDown" -> [state EXCEPT !.dungeon.tiles = <<>>]
                     [] OTHER -> state,
         moved |-> IF moves THEN moved ELSE None,
         panic |-> moves /\ IsNone(get_position(state)),
         wraps |-> moves /\ IsSome(get_position(state))
                   /\ MoveWraps(Unwrap(get_position(state)), action.direction)]

(***************************************************************************)
(* The file "state".  main reads it once at start-up and writes it at the  *)
(* end of every stored tick.                                                *)
(***************************************************************************)
\* The file is missing, is no UTF-8 text, is text that is no State in JSON, or is
\* the JSON serde_json::to_string wrote for a State.
StateFile(kind, stored) == [kind |-> kind, stored |-> stored]

AbsentFile == StateFile("absent", None)

UnreadableFile == StateFile("unreadable", None)

InvalidFile == StateFile("invalid", None)

\* main, line 239: fs::write("state", serde_json::to_string(&snapshot)).
WrittenFile(stored) == StateFile("valid", Some(stored))

\* std::fs::read_to_string: the text of the file, or an error.
read_to_string(file) ==
    IF file.kind \in {"absent", "unreadable"}
    THEN [ok |-> FALSE, text |-> file]
    ELSE [ok |-> TRUE, text |-> file]

\* serde_json::from_str::<State>: the State the text denotes, or an error.
from_str(text) ==
    IF text.kind = "valid"
    THEN [ok |-> TRUE, value |-> text.stored]
    ELSE [ok |-> FALSE, value |-> None]

\* The start-up expression with unwrap in place of unwrap_or(State::default()).
load_state_unwrap(file) ==
    IF read_to_string(file).ok
    THEN IF from_str(read_to_string(file).text).ok
         THEN [panic |-> FALSE, state |-> Unwrap(from_str(read_to_string(file).text).value)]
         ELSE [panic |-> TRUE, state |-> DefaultState]
    ELSE [panic |-> FALSE, state |-> DefaultState]

\* main, lines 42-47: the state the shared snapshot starts from.
load_state(file) ==
    IF read_to_string(file).ok
    THEN IF from_str(read_to_string(file).text).ok
         THEN [panic |-> FALSE, state |-> Unwrap(from_str(read_to_string(file).text).value)]
         ELSE [panic |-> FALSE, state |-> DefaultState]
    ELSE [panic |-> FALSE, state |-> DefaultState]

(***************************************************************************)
(* The control loop of main.rs, one step per call it makes.                *)
(***************************************************************************)
VARIABLES
    old_state,      \* the shared snapshot behind the mutex
    snapshot,       \* the loop's copy of it, taken at the top of the tick
    last_action,    \* the action of the previous tick
    pc,             \* where the loop is
    image,          \* the sample of the tick
    classified,     \* how get_state ended in this tick
    state,          \* the state get_state returned
    action,         \* the action determine_action returned
    moved,          \* what run_action returned
    ticks,          \* completed ticks
    state_file,     \* the file "state"
    guard,          \* who holds the mutex around old_state
    http,           \* the handlers of the status thread, one per worker
    loop_waited,    \* how long the loop has waited for the mutex, in ms
    published,      \* every value old_state has had between two critical sections
    query,          \* a call of Bitmap::get_pixel on `image`: the build, the coordinate, the outcome
    world           \* the dungeon the game runs: its tiles and where the party stands

shared == <<guard, http, loop_waited, published>>

vars == <<old_state, snapshot, last_action, pc, image, classified, state, action, moved, ticks,
          state_file, shared, query, world>>

\* No call of get_pixel is followed.
NoQuery == [build |-> "debug", at |-> <<0, 0>>, outcome |-> None]

\* The game is not followed: the samples are drawn from a set.
NoWorld == [map |-> <<>>, at |-> Coords(0, 0)]

\* The threads of the status server that answer /data.
HttpWorkers == {"worker1", "worker2"}

\* A handler: where it is, how long it has waited for the mutex (ms), and the
\* State its response carries.
Handler(at, waited, body) == [pc |-> at, waited |-> waited, body |-> body]

\* Nobody holds or wants the mutex.
Unshared ==
    /\ guard = "free"
    /\ http = [w \in HttpWorkers |-> Handler("idle", 0, None)]
    /\ loop_waited = 0
    /\ published = {old_state}

\* main, lines 202-205, and run, lines 249-251: copy the snapshot and capture a sample.
Capture(samples, max_ticks) ==
    /\ pc = "capture"
    /\ ticks < max_ticks
    /\ snapshot' = old_state
    /\ \E sample \in samples : image' = sample
    /\ pc' = "classify"
    /\ UNCHANGED <<old_state, last_action, classified, state, action, moved, ticks>>
    /\ UNCHANGED <<state_file, shared, query, world>>

\* run, line 252: get_state(...).unwrap().
Classify ==
    /\ pc = "classify"
    /\ LET got == get_state(snapshot, image)
       IN  /\ classified' = got.result
           /\ IF got.result = "Ok"
              THEN state' = got.state /\ pc' = "determine"
              ELSE state' = state /\ pc' = "panicked"
    /\ UNCHANGED <<old_state, snapshot, last_action, image, action, moved, ticks>>
    /\ UNCHANGED <<state_file, shared, query, world>>

\* run, line 254: determine_action with the position of the copied snapshot.
Determine ==
    /\ pc = "determine"
    /\ \E a \in determine_action(state, last_action, get_position(snapshot)) :
          /\ action' = a
          /\ pc' = IF a.tag = "Panic" THEN "panicked" ELSE "act"
    /\ UNCHANGED <<old_state, snapshot, last_action, image, classified, state, moved, ticks>>
    /\ UNCHANGED <<state_file, shared, query, world>>

\* run, lines 256-258: run_action.
Execute ==
    /\ pc = "act"
    /\ LET ran == run_action(state, action)
       IN  \/ /\ ~ran.panic
              /\ state' = ran.state
              /\ moved' = ran.moved
              /\ pc' = "store"
           \/ /\ ran.panic \/ ran.wraps
              /\ state' = state
              /\ moved' = moved
              /\ pc' = "panicked"
    /\ UNCHANGED <<old_state, snapshot, last_action, image, classified, action, ticks>>
    /\ UNCHANGED <<state_file, shared, query, world>>

\* Store without the break on Resurrect of line 231.
Store_no_break ==
    /\ pc = "store"
    /\ last_action' = action
    /\ pc' = "capture" /\ old_state' = state /\ state_file' = WrittenFile(state)
    /\ ticks' = ticks + 1
    /\ UNCHANGED <<snapshot, image, classified, state, action, moved>>
    /\ UNCHANGED <<shared, query, world>>

\* main, lines 207-243: remember the action, stop on Resurrect, else store the state.
Store ==
    /\ pc = "store"
    /\ last_action' = action
    /\ IF action.tag = "Resurrect"
       THEN pc' = "halted" /\ old_state' = old_state /\ state_file' = state_file
       ELSE pc' = "capture" /\ old_state' = state /\ state_file' = WrittenFile(state)
    /\ ticks' = ticks + 1
    /\ UNCHANGED <<snapshot, image, classified, state, action, moved>>
    /\ UNCHANGED <<shared, query, world>>

(***************************************************************************)
(* The planner on its own: determine_action and run_action applied to      *)
(* states, last actions and previous positions drawn from bounded sets.    *)
(***************************************************************************)
MaxTargetX == 3

Here == Coords(1, 1)
East == Coords(2, 1)

Healthy == [i \in 1..4 |-> "Healthy"]
OneDead == [i \in 1..4 |-> IF i = 2 THEN "Dead" ELSE "Healthy"]
OneLow == [i \in 1..4 |-> IF i = 3 THEN "Low" ELSE "Healthy"]

\* Tiles at a position: visited or not, plain, city or staircase-down, with the
\* given edges open.
TileMenu(position, edges) ==
    {Tile(position, TRUE, visited, marker = "city", marker = "down",
          e[1], e[2], e[3], e[4]) :
        visited \in BOOLEAN, marker \in {"none", "city", "down"}, e \in edges}

AllOpen == <<TRUE, TRUE, TRUE, TRUE>>
AllClosed == <<FALSE, FALSE, FALSE, FALSE>>
EastOnly == <<FALSE, TRUE, FALSE, FALSE>>

\* Grids of at most two tiles: the tile the agent stands on and its east neighbour.
PlanGrids ==
    LET here == TileMenu(Here, {AllOpen, AllClosed, EastOnly})
        east == TileMenu(East, {AllOpen, AllClosed})
    IN  {<<>>} \cup {<<a>> : a \in here} \cup {<<b>> : b \in east}
        \cup {<<a, b>> : a \in here, b \in east}

PlanDungeon(dungeon_state, characters, coordinates, tiles) ==
    [state |-> dungeon_state, characters |-> characters,
     info |-> [floor |-> "D1", coordinates |-> coordinates], tiles |-> tiles]

\* Targets of a previous FindFight: along the row of the agent, and one beyond the playfield.
PlanTargets == {OpenTile(x, Here.y) : x \in Here.x..MaxTargetX} \cup {OpenTile(PLAYFIELD_MAX + 1, Here.y)}

PlanLastActions ==
    {Act("CloseAd")}
    \cup {FindFight("East", t, n) : t \in PlanTargets, n \in {0, 1, STUCK_LIMIT - 1, STUCK_LIMIT}}

\* Exploring: nobody dead, idle off the city tile.
ExploreInputs ==
    {<<IntoStateWith(StateType("Dungeon"), PlanDungeon(Idle(FALSE), Healthy, Some(Here), g)), la, op>> :
        g \in PlanGrids, la \in PlanLastActions, op \in {None, Some(East)}}

\* Retreating and fighting: a dead or a low party member, or nobody hurt in a fight.
RetreatInputs ==
    {<<IntoStateWith(StateType("Dungeon"), PlanDungeon(ds, ch, Some(Here), g)), Act("CloseAd"), op>> :
        ds \in {Idle(FALSE), Idle(TRUE), Fight("Healthy"), IdleChest},
        ch \in {OneDead, OneLow}, g \in PlanGrids, op \in {None, Some(East)}}

\* No position known, and the states that are not a dungeon.
OtherInputs ==
    {<<IntoStateWith(st, PlanDungeon(ds, ch, None, g)), la, op>> :
        st \in {StateType("Dungeon"), StateType("Ad"), StateType("Main"),
                StateType("TeleportToCity"), City(TRUE), City(FALSE)},
        ds \in {Idle(FALSE), Idle(TRUE), Fight("Healthy"), IdleChest},
        ch \in {Healthy, OneDead, OneLow},
        g \in {<<>>, <<Tile(Here, TRUE, TRUE, TRUE, FALSE, TRUE, TRUE, TRUE, TRUE)>>},
        la \in {Act("CloseAd"), FindFight("East", OpenTile(2, 1), 1)},
        op \in {None, Some(East)}}

PlanInputs == ExploreInputs \cup RetreatInputs \cup OtherInputs

InitPlan ==
    /\ \E in \in PlanInputs :
          /\ state = in[1]
          /\ last_action = in[2]
          /\ snapshot = [DefaultState EXCEPT !.dungeon.info.coordinates = in[3]]
    /\ old_state = snapshot
    /\ pc = "determine"
    /\ image = with_capacity
    /\ classified = "Ok"
    /\ action = Act("CloseAd")
    /\ moved = None
    /\ ticks = 0
    /\ state_file = AbsentFile
    /\ Unshared
    /\ query = NoQuery
    /\ world = NoWorld

NextPlan == Determine \/ Execute

SpecPlan == InitPlan /\ [][NextPlan]_vars

(***************************************************************************)
(* Samples.  A sample is painted from layers: each layer gives the pixels  *)
(* one screen element shows, a layer named earlier hiding a later one      *)
(* where they overlap.  Below every sample lies the dungeon window with    *)
(* fog on every cell but the cell of the player and the one east of it.    *)
(***************************************************************************)
MaxLayers == 3

Px(points, color) == [p \in points |-> color]

\* The window cell the player stands in, by WindowBase.
PLAYER_CELL == <<(TILE_COUNT[1] + 1) \div 2, (TILE_COUNT[2] + 1) \div 2 - 1>>
EAST_CELL == <<PLAYER_CELL[1] + 1, PLAYER_CELL[2]>>

WindowCells == {<<x_count, y_count>> : x_count \in 0..(TILE_COUNT[1] - 1), y_count \in 0..(TILE_COUNT[2] - 1)}

FogExcept(cells) ==
    Px({CellCentre(c[1], c[2]) : c \in WindowCells \ cells}, TILE_UNEXPLORED)

\* The wall pixels get_tiles reads on one edge of a cell.
WallPixel(cell, edge) ==
    LET c == CellCentre(cell[1], cell[2])
    IN  CASE edge = "North" -> <<c[1], TILE_START[2] + cell[2] * TILE_SIZE[2] + 1>>
          [] edge = "East" -> <<TILE_START[1] + cell[1] * TILE_SIZE[1] + TILE_SIZE[1] - 4, c[2]>>
          [] edge = "South" -> <<c[1], TILE_START[2] + cell[2] * TILE_SIZE[2] + TILE_SIZE[2] - 4>>
          [] edge = "West" -> <<TILE_START[1] + cell[1] * TILE_SIZE[1] + 1, c[2]>>

Walls(cell, edges) == Px({WallPixel(cell, e) : e \in edges}, WHITE)

\* The marker pixel is_city, is_go_down and is_go_up read first.
MarkerPixel(cell) == <<CellCentre(cell[1], cell[2])[1] - 2, CellCentre(cell[1], cell[2])[2]>>

CityMarker(cell) == Px({MarkerPixel(cell)}, MARKER)
\* Every pixel is_go_down reads, in a marker colour.
StairsMarker(cell) ==
    LET m == MarkerPixel(cell)
    IN  Px({m, <<m[1] + 4, m[2] + 8>>, <<m[1] - 5, m[2]>>}, MARKER)
        @@ Px({<<m[1] + 5, m[2]>>}, MARKER_FADED)

AdLayer == Px({<<918, 138>>, <<949, 138>>, <<919, 168>>, <<949, 168>>}, AD_GREY)
AdPartLayer == Px({<<918, 138>>, <<949, 138>>, <<919, 168>>}, AD_GREY)
TeleportLayer == Px({<<911, 940>>, <<155, 940>>, <<919, 168>>, <<949, 168>>}, TELEPORT_DARK)
TeleportPartLayer == Px({<<911, 940>>, <<155, 940>>}, TELEPORT_DARK)
ChestLayer == Px({<<466, 1116>>}, CHEST_BLUE) @@ Px({<<690, 1306>>, <<717, 1326>>}, BUTTON_PURPLE)
ChestPartLayer == Px({<<466, 1116>>}, CHEST_BLUE) @@ Px({<<690, 1306>>}, BUTTON_PURPLE)
FightLayer == Px({<<827, 1306>>}, FIGHT)
FightHighLayer == Px({<<827, 1260>>}, FIGHT_2)
AttackButtonLayer == Px({<<671, 1309>>}, BUTTON_PURPLE)
IdleLayer == Px({<<979, 1083>>, <<1023, 1116>>}, IDLE_1)
IdlePartLayer == Px({<<979, 1083>>}, IDLE_1)
CityTileLayer == Px({<<716, 1279>>}, FIGHT)
NoCityTileLayer == Px({<<642, 1201>>, <<608, 1307>>, <<609, 1329>>}, BUTTON_PURPLE)
CityLayer == Px({<<752, 1926>>}, CITY_1) @@ Px({<<75, 1512>>}, CITY_2)
CityPartLayer == Px({<<752, 1926>>}, CITY_1)
MainLayer == Px({<<462, 1254>>, <<536, 1262>>, <<615, 1270>>}, WHITE)
MainPartLayer == Px({<<462, 1254>>, <<536, 1262>>}, WHITE)
DeadLayer == Px({<<147, 680>>}, HEALTH_GREY)

Layers ==
    <<AdLayer, AdPartLayer, TeleportLayer, TeleportPartLayer, ChestLayer, ChestPartLayer,
      FightLayer, FightHighLayer, AttackButtonLayer, IdleLayer, IdlePartLayer,
      CityTileLayer, NoCityTileLayer, CityLayer, CityPartLayer, MainLayer, MainPartLayer,
      DeadLayer, Walls(PLAYER_CELL, {"North", "West"}), CityMarker(EAST_CELL),
      StairsMarker(EAST_CELL)>>

RECURSIVE Paint(_, _)
\* The layers chosen, over the fogged window.
Paint(chosen, i) ==
    IF i > Len(Layers) THEN FogExcept({PLAYER_CELL, EAST_CELL})
    ELSE IF i \in chosen THEN Layers[i] @@ Paint(chosen, i + 1)
    ELSE Paint(chosen, i + 1)

RECURSIVE Choices(_)
\* The sets of at most n layers.
Choices(n) ==
    IF n = 0 THEN {{}}
    ELSE LET fewer == Choices(n - 1)
         IN  fewer \cup {c \cup {i} : c \in fewer, i \in 1..Len(Layers)}

\* screencap.rs, bitmap_from_image: the sample with its info and its dead flag.
Sample(pixels, coordinates) ==
    LET bare == [pixels |-> pixels, has_dead_characters |-> FALSE,
                 info |-> [floor |-> IF IsSome(coordinates) THEN "D1" ELSE "",
                           coordinates |-> coordinates]]
    IN  [bare EXCEPT !.has_dead_characters = \E i \in 1..4 : get_characters(bare)[i] = "Dead"]

\* A position whose window lies off the origin of the grid.
Away == Coords(5, 5)

ClassifySamples ==
    {Sample(Paint(c, 1), coordinates) : c \in Choices(MaxLayers), coordinates \in {None, Some(Away)}}

\* Previous states: the default one, and two dungeon states that know a position.
KnownTiles ==
    <<Tile(Away, TRUE, TRUE, FALSE, FALSE, TRUE, TRUE, TRUE, TRUE),
      Tile(Coords(Away.x, Away.y + 4), TRUE, FALSE, TRUE, FALSE, TRUE, TRUE, TRUE, TRUE)>>

ClassifyOldStates ==
    {DefaultState,
     IntoStateWith(StateType("Dungeon"), PlanDungeon(Idle(FALSE), Healthy, Some(Away), KnownTiles)),
     IntoStateWith(StateType("Dungeon"), PlanDungeon(Idle(FALSE), OneDead, Some(East), <<>>))}

InitClassify ==
    /\ old_state \in ClassifyOldStates
    /\ snapshot = old_state
    /\ image \in ClassifySamples
    /\ pc = "classify"
    /\ last_action = Act("CloseAd")
    /\ classified = "Ok"
    /\ state = DefaultState
    /\ action = Act("CloseAd")
    /\ moved = None
    /\ ticks = 0
    /\ state_file = AbsentFile
    /\ Unshared
    /\ query = NoQuery
    /\ world = NoWorld

NextClassify == Classify \/ Determine

SpecClassify == InitClassify /\ [][NextClassify]_vars

(***************************************************************************)
(* The control loop from start-up.  main loads the state file if it parses *)
(* and starts from the default state otherwise.                            *)
(***************************************************************************)
MaxTicks == 2

LayerIndex(layer) == CHOOSE i \in 1..Len(Layers) : Layers[i] = layer

LoopLayers ==
    {{LayerIndex(AdLayer)}, {LayerIndex(TeleportLayer)}, {LayerIndex(CityLayer)},
     {LayerIndex(MainLayer)}, {LayerIndex(FightLayer)}, {LayerIndex(IdleLayer)},
     {LayerIndex(AdPartLayer)}, {LayerIndex(CityLayer), LayerIndex(DeadLayer)}}

LoopDungeonLayers ==
    {{LayerIndex(ChestLayer)}, {LayerIndex(IdleLayer)},
     {LayerIndex(IdleLayer), LayerIndex(DeadLayer)}}

\* What the device can show at a tick: screens without a coordinate read-out
\* and dungeon screens with one.
LoopSamples ==
    {sample \in {Sample(Paint(c[1], 1), c[2]) :
                    c \in {pick \in (LoopLayers \cup LoopDungeonLayers)
                                       \X {None, Some(Away), Some(Coords(Away.x + 1, Away.y))} :
                              \/ pick[1] \in LoopLayers /\ pick[2] = None
                              \/ pick[1] \in LoopDungeonLayers /\ pick[2] # None}} : TRUE}

LoadedStates ==
    {DefaultState,
     IntoStateWith(StateType("Dungeon"), PlanDungeon(Idle(FALSE), Healthy, Some(Away), KnownTiles))}

\* What main can find under the name "state" when it starts.
StateFiles ==
    {AbsentFile, UnreadableFile, InvalidFile} \cup {WrittenFile(stored) : stored \in LoadedStates}

Init ==
    /\ state_file \in StateFiles
    /\ old_state = load_state(state_file).state
    /\ snapshot = old_state
    /\ last_action = Act("CloseAd")
    /\ pc = IF load_state(state_file).panic THEN "panicked" ELSE "capture"
    /\ image = with_capacity
    /\ classified = "Ok"
    /\ state = old_state
    /\ action = Act("CloseAd")
    /\ moved = None
    /\ ticks = 0
    /\ Unshared
    /\ query = NoQuery
    /\ world = NoWorld

Next ==
    \/ Capture(LoopSamples, MaxTicks)
    \/ Classify
    \/ Determine
    \/ Execute
    \/ Store

Spec == Init /\ [][Next]_vars

(***************************************************************************)
(* Properties of the planner, stated on the state the planner was given    *)
(* (`state`, `last_action`, the previous position in `snapshot`) and the   *)
(* outcome in `action`, before run_action has touched the state.           *)

(***************************************************************************)
(* State::merge on its own: a freshly built state merged with a previous   *)
(* one, both drawn from bounded grids.                                     *)
(***************************************************************************)
MaxMergeX == 2

\* The tiles a grid may hold at a position: visited or not, plain, city or
\* staircase-down; a visited tile is explored and open, an unvisited one is
\* unexplored with only its east edge open.
MergeTileMenu(position) ==
    {Tile(position, visited, visited, marker = "city", marker = "down",
          visited, TRUE, visited, visited) :
        visited \in BOOLEAN, marker \in {"none", "city", "down"}}

RECURSIVE MergeGridsFrom(_)
\* Grids with at most one tile per position x..MaxMergeX of a row, as
\* get_tiles and merge build them, listed west to east.
MergeGridsFrom(x) ==
    IF x > MaxMergeX THEN {<<>>}
    ELSE {first \o rest :
            first \in {<<>>} \cup {<<t>> : t \in MergeTileMenu(Coords(x, 1))},
            rest \in MergeGridsFrom(x + 1)}

Reverse(seq) == [i \in 1..Len(seq) |-> seq[Len(seq) + 1 - i]]

MergeNewGrids == MergeGridsFrom(1)
MergeOldGrids == MergeNewGrids \cup {Reverse(g) : g \in MergeNewGrids}

InitMerge ==
    /\ \E new \in MergeNewGrids, old \in MergeOldGrids :
          /\ state = IntoStateWith(StateType("Dungeon"),
                                   PlanDungeon(Idle(FALSE), Healthy, Some(Here), new))
          /\ old_state = IntoStateWith(StateType("Dungeon"),
                                       PlanDungeon(Idle(TRUE), OneDead, Some(East), old))
    /\ snapshot = state
    /\ pc = "merge"
    /\ last_action = Act("CloseAd")
    /\ image = with_capacity
    /\ classified = "Ok"
    /\ action = Act("CloseAd")
    /\ moved = None
    /\ ticks = 0
    /\ state_file = AbsentFile
    /\ Unshared
    /\ query = NoQuery
    /\ world = NoWorld

\* new.merge(old): state is the new state and becomes the merged one,
\* snapshot keeps the new state as it was.
Merge ==
    /\ pc = "merge"
    /\ state' = merge(state, old_state)
    /\ pc' = "merged"
    /\ UNCHANGED <<old_state, snapshot, last_action, image, classified, action, moved, ticks>>
    /\ UNCHANGED <<state_file, shared, query, world>>

NextMerge == Merge

SpecMerge == InitMerge /\ [][NextMerge]_vars


(***************************************************************************)
(* get_next_tile_to_goal on its own: walks over a fully open playfield,    *)
(* one returned tile at a time.                                            *)
(***************************************************************************)
MaxWalk == 3

\* Goals in the corners, on the borders and in the middle of the playfield.
WalkGoals ==
    {Coords(0, 0), Coords(PLAYFIELD_MAX, PLAYFIELD_MAX), Coords(0, PLAYFIELD_MAX),
     Coords(PLAYFIELD_MAX, 1), Coords(PLAYFIELD_MAX \div 2, PLAYFIELD_MAX \div 2)}

\* The positions of the playfield other than the goal, at most MaxWalk steps
\* from it, and the position at the other end of its row.
WalkStarts(goal) ==
    {c \in {Coords(x, y) : x \in 0..PLAYFIELD_MAX, y \in 0..PLAYFIELD_MAX} :
        \/ manhattan(c, goal) >= 1 /\ manhattan(c, goal) <= MaxWalk
        \/ c = Coords(PLAYFIELD_MAX - goal.x, goal.y) /\ c # goal}

\* Fully open grids: no tile known (get_tile answers with an open tile), or
\* open tiles listed for the start and the goal.
WalkGrids(from, goal) == {<<>>, <<OpenTile(goal.x, goal.y), OpenTile(from.x, from.y)>>}

\* snapshot keeps the start, last_action the goal, ticks counts the steps,
\* moved is the position before the last step.
InitWalk ==
    /\ \E goal \in WalkGoals :
          \E from \in WalkStarts(goal) :
             \E g \in WalkGrids(from, goal) :
                /\ state = IntoStateWith(StateType("Dungeon"),
                                         PlanDungeon(Idle(FALSE), Healthy, Some(from), g))
                /\ last_action = FindFight("North", get_tile(state.dungeon, goal.x, goal.y), 0)
    /\ snapshot = state
    /\ old_state = state
    /\ pc = "walk"
    /\ image = with_capacity
    /\ classified = "Ok"
    /\ action = Act("CloseAd")
    /\ moved = None
    /\ ticks = 0
    /\ state_file = AbsentFile
    /\ Unshared
    /\ query = NoQuery
    /\ world = NoWorld

\* One call of get_next_tile_to_goal from the current tile, and the move to
\* the tile it returns; "lost" when it returns None.
Walk ==
    /\ pc = "walk"
    /\ Let(get_next_tile_to_goal(state.dungeon, get_current_tile(state.dungeon),
                                 Unwrap(last_action.target)), LAMBDA next :
          IF next = {}
          THEN /\ pc' = "lost"
               /\ UNCHANGED <<state, moved, ticks>>
          ELSE \E t \in next :
                 /\ state' = set_position(state, t.position)
                 /\ moved' = get_position(state)
                 /\ ticks' = ticks + 1
                 /\ pc' = IF t.position = Unwrap(last_action.target).position
                          THEN "arrived" ELSE "walk")
    /\ UNCHANGED <<old_state, snapshot, last_action, image, classified, action>>
    /\ UNCHANGED <<state_file, shared, query, world>>

NextWalk == Walk

SpecWalk == InitWalk /\ [][NextWalk]_vars


(***************************************************************************)
(* get_next_tile_to_goal between walls: one call on a corridor along the   *)
(* north border, or on a strip across the east border of the playfield.    *)
(***************************************************************************)
MaxRouteX == 2

EastWest == <<FALSE, TRUE, FALSE, TRUE>>
WestOnly == <<FALSE, FALSE, FALSE, TRUE>>

\* A tile with the given edges, or no tile at all.
RouteTileMenu(position, edges) ==
    {<<>>} \cup {<<Tile(position, TRUE, FALSE, FALSE, FALSE, e[1], e[2], e[3], e[4])>> : e \in edges}

RECURSIVE CorridorsFrom(_)
\* Corridors (x, 0), x..MaxRouteX: each tile closed to the south, its east
\* and west edges open or closed one by one, or the tile absent.
CorridorsFrom(x) ==
    IF x > MaxRouteX THEN {<<>>}
    ELSE {first \o rest :
            first \in RouteTileMenu(Coords(x, 0), {AllClosed, EastOnly, WestOnly, EastWest}),
            rest \in CorridorsFrom(x + 1)}

\* A corridor with a start on it and a goal on it or just south of its west end.
CorridorRoutes ==
    {<<g, from, goal>> :
        g \in CorridorsFrom(0),
        from \in {Coords(x, 0) : x \in 0..MaxRouteX},
        goal \in {Coords(x, 0) : x \in 0..MaxRouteX} \cup {Coords(0, 1)}}

\* The strip (28..31, 29) across the east border, closed to the north, its
\* west end walled in.
BorderStrips ==
    {<<Tile(Coords(PLAYFIELD_MAX - 1, PLAYFIELD_MAX), TRUE, FALSE, FALSE, FALSE,
            FALSE, FALSE, FALSE, FALSE)>> \o a \o b \o c :
        a \in RouteTileMenu(Coords(PLAYFIELD_MAX, PLAYFIELD_MAX), {AllClosed, EastWest}) \ {<<>>},
        b \in RouteTileMenu(Coords(PLAYFIELD_MAX + 1, PLAYFIELD_MAX), {AllClosed, EastWest}) \ {<<>>},
        c \in RouteTileMenu(Coords(PLAYFIELD_MAX + 2, PLAYFIELD_MAX), {AllClosed, EastWest}) \ {<<>>}}

BorderRoutes ==
    {<<g, from, goal>> :
        g \in BorderStrips,
        from \in {Coords(PLAYFIELD_MAX + d, PLAYFIELD_MAX) : d \in 0..2},
        goal \in {Coords(PLAYFIELD_MAX + d, PLAYFIELD_MAX) : d \in 0..2}}

\* snapshot keeps the start, last_action the goal.
InitRoute ==
    /\ \E r \in {q \in CorridorRoutes \cup BorderRoutes : q[2] # q[3]} :
          /\ state = IntoStateWith(StateType("Dungeon"),
                                   PlanDungeon(Idle(FALSE), Healthy, Some(r[2]), r[1]))
          /\ last_action = FindFight("North", get_tile(state.dungeon, r[3].x, r[3].y), 0)
    /\ snapshot = state
    /\ old_state = state
    /\ pc = "route"
    /\ image = with_capacity
    /\ classified = "Ok"
    /\ action = Act("CloseAd")
    /\ moved = None
    /\ ticks = 0
    /\ state_file = AbsentFile
    /\ Unshared
    /\ query = NoQuery
    /\ world = NoWorld

\* One call of get_next_tile_to_goal: moved is the position of the tile
\* returned, pc tells Some ("routed") from None ("unroutable").
Route ==
    /\ pc = "route"
    /\ Let(get_next_tile_to_goal(state.dungeon, get_current_tile(state.dungeon),
                                 Unwrap(last_action.target)), LAMBDA next :
          IF next = {}
          THEN pc' = "unroutable" /\ moved' = None
          ELSE \E t \in next : pc' = "routed" /\ moved' = Some(t.position))
    /\ UNCHANGED <<old_state, snapshot, last_action, image, classified, state, action, ticks>>
    /\ UNCHANGED <<state_file, shared, query, world>>

NextRoute == Route

SpecRoute == InitRoute /\ [][NextRoute]_vars


(***************************************************************************)
(* get_closest_unvisited_tile on its own: one call on a corridor along the *)
(* north border whose tiles are visited or not.                            *)
(***************************************************************************)
MaxSeekX == 2

\* A tile with the given edges, visited or not, or no tile at all.
SeekTileMenu(position, edges) ==
    {<<>>} \cup {<<Tile(position, TRUE, visited, FALSE, FALSE, e[1], e[2], e[3], e[4])>> :
                    e \in edges, visited \in BOOLEAN}

RECURSIVE SeekCorridorsFrom(_)
SeekCorridorsFrom(x) ==
    IF x > MaxSeekX THEN {<<>>}
    ELSE {first \o rest :
            first \in SeekTileMenu(Coords(x, 0), {AllClosed, EastOnly, WestOnly, EastWest}),
            rest \in SeekCorridorsFrom(x + 1)}

InitSeek ==
    /\ \E g \in SeekCorridorsFrom(0), from \in {Coords(x, 0) : x \in 0..MaxSeekX} :
          state = IntoStateWith(StateType("Dungeon"),
                                PlanDungeon(Idle(FALSE), Healthy, Some(from), g))
    /\ snapshot = state
    /\ old_state = state
    /\ pc = "seek"
    /\ last_action = Act("CloseAd")
    /\ image = with_capacity
    /\ classified = "Ok"
    /\ action = Act("CloseAd")
    /\ moved = None
    /\ ticks = 0
    /\ state_file = AbsentFile
    /\ Unshared
    /\ query = NoQuery
    /\ world = NoWorld

\* One call of get_closest_unvisited_tile from the current tile: the tile
\* returned becomes the target of action, pc tells Some ("found") from None
\* ("nowhere").
Seek ==
    /\ pc = "seek"
    /\ Let(get_closest_unvisited_tile(state.dungeon, get_current_tile(state.dungeon)),
           LAMBDA found :
          IF found = {}
          THEN pc' = "nowhere" /\ action' = action
          ELSE \E t \in found : pc' = "found" /\ action' = FindFight("North", t, 0))
    /\ UNCHANGED <<old_state, snapshot, last_action, image, classified, state, moved, ticks>>
    /\ UNCHANGED <<state_file, shared, query, world>>

NextSeek == Seek

SpecSeek == InitSeek /\ [][NextSeek]_vars


(***************************************************************************)
(* determine_action and run_action at the north-west corner of the grid,   *)
(* where a step north or west leaves the u32 coordinates.                  *)
(***************************************************************************)
\* Where the agent stands: in the corner, on the north border, off the borders.
ActPositions == {Coords(0, 0), Coords(1, 0), Coords(1, 1)}

\* Nothing known, the tile stood on known as plain, as the city tile or as
\* the stairs, or the city tile known to the east of it.
ActGrids(p) ==
    {<<>>,
     <<Tile(p, TRUE, TRUE, FALSE, FALSE, TRUE, TRUE, TRUE, TRUE)>>,
     <<Tile(p, TRUE, TRUE, TRUE, FALSE, TRUE, TRUE, TRUE, TRUE)>>,
     <<Tile(p, TRUE, TRUE, FALSE, TRUE, TRUE, TRUE, TRUE, TRUE)>>,
     <<Tile(p, TRUE, TRUE, FALSE, FALSE, TRUE, TRUE, TRUE, TRUE),
       Tile(Coords(p.x + 1, p.y), TRUE, FALSE, TRUE, FALSE, TRUE, TRUE, TRUE, TRUE)>>}

ActInputs ==
    {<<IntoStateWith(st, PlanDungeon(ds, ch, Some(p), g)), la>> :
        st \in {StateType("Dungeon"), StateType("Ad"), StateType("Main"),
                StateType("TeleportToCity"), City(TRUE), City(FALSE)},
        ds \in {Idle(FALSE), Idle(TRUE), Fight("Healthy"), IdleChest},
        ch \in {Healthy, OneDead},
        p \in ActPositions,
        g \in UNION {ActGrids(q) : q \in ActPositions},
        la \in {Act("CloseAd"), FindFight("East", OpenTile(2, 0), 1)}}

\* snapshot is the state as run receives it from get_state.
InitAct ==
    /\ \E in \in ActInputs :
          /\ state = in[1]
          /\ last_action = in[2]
    /\ snapshot = state
    /\ old_state = state
    /\ pc = "determine"
    /\ image = with_capacity
    /\ classified = "Ok"
    /\ action = Act("CloseAd")
    /\ moved = None
    /\ ticks = 0
    /\ state_file = AbsentFile
    /\ Unshared
    /\ query = NoQuery
    /\ world = NoWorld

NextAct == Determine \/ Execute

SpecAct == InitAct /\ [][NextAct]_vars


(***************************************************************************)
(* The mutex around the shared snapshot: the control loop of main, one     *)
(* step per critical section, next to the /data handlers of the status     *)
(* server.                                                                 *)
(***************************************************************************)
\* main, line 55: try_lock_for(Duration::from_millis(5000)).
LOCK_TIMEOUT == 5000

\* Waiting is followed in steps of half the time-out, the loop's for MaxLoopWaits steps.
WaitQuantum == LOCK_TIMEOUT \div 2

MaxLoopWaits == 3

\* A tick that ends in a panic: main receives nothing.
RunPanicked(old, last) == [panic |-> TRUE, state |-> old, action |-> last]

\* run, lines 256-259: run_action on the state and the action, which main receives
\* unless run_action panics.
run_acted(seen, a, old, last) ==
    (IF run_action(seen, a).panic
     THEN {}
     ELSE {[panic |-> FALSE, state |-> run_action(seen, a).state, action |-> a]})
    \cup (IF run_action(seen, a).panic \/ run_action(seen, a).wraps
          THEN {RunPanicked(old, last)}
          ELSE {})

\* run, lines 248-260: how one tick can end for a sample.
run(old, last, sample) ==
    Let(get_state(old, sample), LAMBDA got :
        IF got.result # "Ok"
        THEN {RunPanicked(old, last)}
        ELSE UNION {IF a.tag = "Panic"
                    THEN {RunPanicked(old, last)}
                    ELSE run_acted(got.state, a, old, last)
                    : a \in determine_action(got.state, last, get_position(old))})

\* The screens of the shared runs: the main menu, the dungeon with a read-out,
\* and the city with a dead member of the party.
ShareSamples ==
    {sample \in LoopSamples :
        \E layers \in {{LayerIndex(MainLayer)}, {LayerIndex(IdleLayer)},
                       {LayerIndex(CityLayer), LayerIndex(DeadLayer)}} :
           sample \in {Sample(Paint(layers, 1), None), Sample(Paint(layers, 1), Some(Away))}}

InitShare ==
    /\ state_file \in {AbsentFile} \cup {WrittenFile(stored) : stored \in LoadedStates}
    /\ old_state = load_state(state_file).state
    /\ snapshot = old_state
    /\ last_action = Act("CloseAd")
    /\ pc = "lock_copy"
    /\ image = with_capacity
    /\ classified = "Ok"
    /\ state = old_state
    /\ action = Act("CloseAd")
    /\ moved = None
    /\ ticks = 0
    /\ Unshared
    /\ query = NoQuery
    /\ world = NoWorld

\* main_state.lock() with the mutex taken whether or not somebody holds it.
LoopLock_barging ==
    /\ pc \in {"lock_copy", "lock_store"}
    /\ guard' = "main"
    /\ pc' = IF pc = "lock_copy" THEN "copy" ELSE "store_type"
    /\ loop_waited' = 0
    /\ UNCHANGED <<old_state, snapshot, last_action, image, classified, state, action, moved,
                   ticks, state_file, http, published>>
    /\ UNCHANGED <<query, world>>

\* main, lines 203 and 235: main_state.lock() returns once nobody holds the mutex.
LoopLock ==
    /\ pc \in {"lock_copy", "lock_store"}
    /\ guard = "free"
    /\ guard' = "main"
    /\ pc' = IF pc = "lock_copy" THEN "copy" ELSE "store_type"
    /\ loop_waited' = 0
    /\ UNCHANGED <<old_state, snapshot, last_action, image, classified, state, action, moved,
                   ticks, state_file, http, published>>
    /\ UNCHANGED <<query, world>>

\* main, lines 203 and 235: lock() keeps waiting while somebody holds the mutex.
LoopWait ==
    /\ pc \in {"lock_copy", "lock_store"}
    /\ guard # "free"
    /\ loop_waited < MaxLoopWaits * WaitQuantum
    /\ loop_waited' = loop_waited + WaitQuantum
    /\ UNCHANGED <<old_state, snapshot, last_action, pc, image, classified, state, action,
                   moved, ticks, state_file, guard, http, published>>
    /\ UNCHANGED <<query, world>>

\* main, lines 204-205: clone the snapshot and drop the guard.
LoopCopy ==
    /\ pc = "copy"
    /\ snapshot' = old_state
    /\ guard' = "free"
    /\ pc' = "run"
    /\ UNCHANGED <<old_state, last_action, image, classified, state, action, moved, ticks,
                   state_file, http, loop_waited, published>>
    /\ UNCHANGED <<query, world>>

\* main, lines 206-233: one call of run, then the match on its action.
LoopRun ==
    /\ pc = "run"
    /\ ticks < MaxTicks
    /\ \E sample \in ShareSamples :
          /\ image' = sample
          /\ \E ran \in {out \in run(snapshot, last_action, sample) : TRUE} :
                /\ state' = ran.state
                /\ action' = ran.action
                /\ last_action' = ran.action
                /\ pc' = IF ran.panic THEN "panicked"
                         ELSE IF ran.action.tag = "Resurrect" THEN "halted" ELSE "lock_store"
    /\ UNCHANGED <<old_state, snapshot, classified, moved, ticks, state_file, shared>>
    /\ UNCHANGED <<query, world>>

\* main, line 236: *guard = state, the state type first.
LoopStoreType ==
    /\ pc = "store_type"
    /\ old_state' = [old_state EXCEPT !.state_type = state.state_type]
    /\ pc' = "store_dungeon"
    /\ UNCHANGED <<snapshot, last_action, image, classified, state, action, moved, ticks,
                   state_file, shared>>
    /\ UNCHANGED <<query, world>>

\* main, lines 236-239: the rest of *guard = state, the clone, the end of the
\* critical section and the write of the file.
LoopStoreDungeon ==
    /\ pc = "store_dungeon"
    /\ old_state' = state
    /\ published' = published \cup {state}
    /\ state_file' = WrittenFile(state)
    /\ guard' = "free"
    /\ pc' = "lock_copy"
    /\ ticks' = ticks + 1
    /\ UNCHANGED <<snapshot, last_action, image, classified, state, action, moved, http,
                   loop_waited>>
    /\ UNCHANGED <<query, world>>

\* main, line 53: a request for /data reaches a worker.
HttpRequest(w) ==
    /\ http[w].pc \in {"idle", "responded", "failed"}
    /\ http' = [http EXCEPT ![w] = Handler("lock", 0, None)]
    /\ UNCHANGED <<old_state, snapshot, last_action, pc, image, classified, state, action,
                   moved, ticks, state_file, guard, loop_waited, published>>
    /\ UNCHANGED <<query, world>>

\* main, line 55: try_lock_for gets the mutex.
HttpLock(w) ==
    /\ http[w].pc = "lock"
    /\ guard = "free"
    /\ guard' = w
    /\ http' = [http EXCEPT ![w] = Handler("locked", 0, None)]
    /\ UNCHANGED <<old_state, snapshot, last_action, pc, image, classified, state, action,
                   moved, ticks, state_file, loop_waited, published>>
    /\ UNCHANGED <<query, world>>

\* main, line 55: try_lock_for waits while the mutex is held and the time-out has not passed.
HttpWait(w) ==
    /\ http[w].pc = "lock"
    /\ guard # "free"
    /\ http[w].waited < LOCK_TIMEOUT
    /\ http' = [http EXCEPT ![w].waited =
                   IF @ + WaitQuantum < LOCK_TIMEOUT THEN @ + WaitQuantum ELSE LOCK_TIMEOUT]
    /\ UNCHANGED <<old_state, snapshot, last_action, pc, image, classified, state, action,
                   moved, ticks, state_file, guard, loop_waited, published>>
    /\ UNCHANGED <<query, world>>

\* main, line 55: try_lock_for gives up with None, and unwrap panics in the handler.
HttpTimeout(w) ==
    /\ http[w].pc = "lock"
    /\ guard # "free"
    /\ http[w].waited >= LOCK_TIMEOUT
    /\ http' = [http EXCEPT ![w].pc = "failed"]
    /\ UNCHANGED <<old_state, snapshot, last_action, pc, image, classified, state, action,
                   moved, ticks, state_file, guard, loop_waited, published>>
    /\ UNCHANGED <<query, world>>

\* main, lines 56-57: serialise the snapshot under the guard and drop the guard.
HttpRead(w) ==
    /\ http[w].pc = "locked"
    /\ http' = [http EXCEPT ![w] = Handler("responded", 0, Some(old_state))]
    /\ guard' = "free"
    /\ UNCHANGED <<old_state, snapshot, last_action, pc, image, classified, state, action,
                   moved, ticks, state_file, loop_waited, published>>
    /\ UNCHANGED <<query, world>>

NextShare ==
    \/ LoopLock
    \/ LoopWait
    \/ LoopCopy
    \/ LoopRun
    \/ LoopStoreType
    \/ LoopStoreDungeon
    \/ \E w \in HttpWorkers : HttpRequest(w)
    \/ \E w \in HttpWorkers : HttpLock(w)
    \/ \E w \in HttpWorkers : HttpWait(w)
    \/ \E w \in HttpWorkers : HttpTimeout(w)
    \/ \E w \in HttpWorkers : HttpRead(w)

SpecShare == InitShare /\ [][NextShare]_vars


(***************************************************************************)
(* The pixels of one window cell: Bitmap::get_pixel called on them in      *)
(* either build, and get_state applied to the sample they belong to.       *)
(***************************************************************************)
\* The four pixels is_go_down and is_go_up read for a cell.
StairPixels(cell) ==
    {MarkerPixel(cell), <<MarkerPixel(cell)[1] + 4, MarkerPixel(cell)[2] + 8>>,
     <<MarkerPixel(cell)[1] + 5, MarkerPixel(cell)[2]>>,
     <<MarkerPixel(cell)[1] - 5, MarkerPixel(cell)[2]>>}

\* Each of them in a marker colour, in another colour, or not sampled.
StairPatterns(cell) ==
    UNION {[sampled -> {MARKER, MARKER_FADED, WHITE}] : sampled \in SUBSET StairPixels(cell)}

\* A player position from which the cell east of the player is tile (15, 15).
WestOfFifteen == Coords(14, 15)

\* Idle dungeon screens with the cell east of the player painted in every pattern.
PixelSamples ==
    {Sample(pattern @@ Paint({LayerIndex(IdleLayer)}, 1), Some(at)) :
        pattern \in StairPatterns(EAST_CELL), at \in {Away, WestOfFifteen}}

InitPixel ==
    /\ image \in PixelSamples
    /\ \/ /\ pc = "pixel"
          /\ query \in {[build |-> build, at |-> at, outcome |-> None] :
                           build \in Builds, at \in StairPixels(EAST_CELL)}
       \/ /\ pc = "classify"
          /\ query = NoQuery
    /\ world = NoWorld
    /\ old_state = DefaultState
    /\ snapshot = old_state
    /\ last_action = Act("CloseAd")
    /\ classified = "Ok"
    /\ state = DefaultState
    /\ action = Act("CloseAd")
    /\ moved = None
    /\ ticks = 0
    /\ state_file = AbsentFile
    /\ Unshared

\* One call of get_pixel.
GetPixel ==
    /\ pc = "pixel"
    /\ query' = [query EXCEPT !.outcome =
                    Some(get_pixel_as(query.build, image, query.at[1], query.at[2]))]
    /\ pc' = IF get_pixel_as(query.build, image, query.at[1], query.at[2]).panic
             THEN "panicked" ELSE "pixel_read"
    /\ UNCHANGED <<old_state, snapshot, last_action, image, classified, state, action, moved,
                   ticks, state_file, shared, world>>

NextPixel == GetPixel \/ Classify

SpecPixel == InitPixel /\ [][NextPixel]_vars


(***************************************************************************)
(* Dungeon::new on its own: get_state applied to idle dungeon screens that *)
(* show three cells, the player's and the ones west and east of it, with   *)
(* walls or none, at positions near the origin and elsewhere.              *)
(***************************************************************************)
WEST_CELL == <<PLAYER_CELL[1] - 1, PLAYER_CELL[2]>>

\* The player positions of the screens: the origin, where the cell west of the
\* player lies off the grid, and positions that put one of the three cells,
\* or none, on tile (22, 14).
SurveyPositions ==
    {Coords(0, 0), Coords(0, 14), Coords(21, 14), Coords(22, 14), Coords(23, 14), Away}

SurveySamples ==
    {Sample(Walls(EAST_CELL, east) @@ Walls(PLAYER_CELL, player) @@ Walls(WEST_CELL, west)
            @@ IdleLayer @@ FogExcept({WEST_CELL, PLAYER_CELL, EAST_CELL}), coordinates) :
        east \in SUBSET {"North", "East", "South", "West"},
        player \in SUBSET {"North"},
        west \in SUBSET {"North"},
        coordinates \in {None} \cup {Some(p) : p \in SurveyPositions}}

InitSurvey ==
    /\ image \in SurveySamples
    /\ old_state \in {DefaultState,
                      IntoStateWith(StateType("Dungeon"),
                                    PlanDungeon(Idle(FALSE), Healthy, Some(Coords(21, 14)), <<>>))}
    /\ snapshot = old_state
    /\ pc = "classify"
    /\ last_action = Act("CloseAd")
    /\ classified = "Ok"
    /\ state = DefaultState
    /\ action = Act("CloseAd")
    /\ moved = None
    /\ ticks = 0
    /\ state_file = AbsentFile
    /\ Unshared
    /\ query = NoQuery
    /\ world = NoWorld

NextSurvey == Classify

SpecSurvey == InitSurvey /\ [][NextSurvey]_vars


(***************************************************************************)
(* The two searches one after the other, as get_unexplored_tile and        *)
(* determine_action call them: get_closest_unvisited_tile from the current *)
(* tile, then get_next_tile_to_goal to the tile it returned.  The grids    *)
(* are corridors along the north border, at the west end and at the east   *)
(* end of the playfield.                                                   *)
(***************************************************************************)
\* The first column of the corridors at the east end.
EastEndX == PLAYFIELD_MAX - 1

RECURSIVE EastCorridorsFrom(_)
\* Tiles (x, 0), x from EastEndX to one past the playfield, each absent or
\* present with its east and west edges open or closed, visited or not.
EastCorridorsFrom(x) ==
    IF x > PLAYFIELD_MAX + 1 THEN {<<>>}
    ELSE {first \o rest :
            first \in SeekTileMenu(Coords(x, 0), {AllClosed, EastOnly, WestOnly, EastWest}),
            rest \in EastCorridorsFrom(x + 1)}

\* Starts inside the playfield, each with the corridors around it.
AgreeInputs ==
    {<<g, Coords(x, 0)>> : g \in SeekCorridorsFrom(0), x \in 0..MaxSeekX}
    \cup {<<g, Coords(x, 0)>> : g \in EastCorridorsFrom(EastEndX), x \in EastEndX..PLAYFIELD_MAX}

InitAgree ==
    /\ \E in \in AgreeInputs :
          state = IntoStateWith(StateType("Dungeon"),
                                PlanDungeon(Idle(FALSE), Healthy, Some(in[2]), in[1]))
    /\ snapshot = state
    /\ old_state = state
    /\ pc = "seek"
    /\ last_action = Act("CloseAd")
    /\ image = with_capacity
    /\ classified = "Ok"
    /\ action = Act("CloseAd")
    /\ moved = None
    /\ ticks = 0
    /\ state_file = AbsentFile
    /\ Unshared
    /\ query = NoQuery
    /\ world = NoWorld

\* get_next_tile_to_goal from the current tile to the tile Seek found: moved is
\* the position of the tile returned, pc tells Some ("routed") from None
\* ("unroutable").
RouteToFound ==
    /\ pc = "found"
    /\ Let(get_next_tile_to_goal(state.dungeon, get_current_tile(state.dungeon),
                                 Unwrap(action.target)), LAMBDA next :
          IF next = {}
          THEN pc' = "unroutable" /\ moved' = None
          ELSE \E t \in next : pc' = "routed" /\ moved' = Some(t.position))
    /\ UNCHANGED <<old_state, snapshot, last_action, image, classified, state, action, ticks>>
    /\ UNCHANGED <<state_file, shared, query, world>>

NextAgree == Seek \/ RouteToFound

SpecAgree == InitAgree /\ [][NextAgree]_vars


(***************************************************************************)
(* The loop next to the game.  The game runs a static dungeon enclosed by   *)
(* walls: world.map gives the open edges of each of its tiles, world.at the *)
(* tile the party stands on.  Each screen capture shows the party's tile    *)
(* and the tiles next to it through open edges as they are, fog elsewhere,  *)
(* the idle screen and the true coordinates; a move succeeds exactly when   *)
(* the edge is open.                                                        *)
(***************************************************************************)
MaxExploreTicks == 8

Edges == {"North", "East", "South", "West"}

At(x, y, open) == Coords(x, y) :> open

\* Three tiles in a row, from `west` eastwards.
Corridor(west) ==
    At(west.x, west.y, {"East"}) @@ At(west.x + 1, west.y, {"East", "West"})
    @@ At(west.x + 2, west.y, {"West"})

Bend == At(5, 5, {"East"}) @@ At(6, 5, {"West", "South"}) @@ At(6, 6, {"North"})

Square ==
    At(5, 5, {"East", "South"}) @@ At(6, 5, {"West", "South"})
    @@ At(5, 6, {"North", "East"}) @@ At(6, 6, {"North", "West"})

\* Tile (22, 14) with its north edge open.
NorthOfTwentyTwoFourteen ==
    At(21, 14, {"East"}) @@ At(22, 14, {"West", "North"}) @@ At(22, 13, {"South"})

\* A corridor with a dead end to the south of its middle tile.
Junction ==
    At(5, 5, {"East"}) @@ At(6, 5, {"East", "West", "South"}) @@ At(7, 5, {"West"})
    @@ At(6, 6, {"North"})

Dungeons ==
    {Corridor(Coords(0, 0)), Corridor(Away), Corridor(Coords(21, 14)), Bend, Square, Junction,
     NorthOfTwentyTwoFourteen}

\* The tiles the screen shows, and the window cell of each.
Visible(w) == {w.at} \cup {move_direction(w.at, d) : d \in w.map[w.at]}
CellOf(w, p) == <<PLAYER_CELL[1] + p.x - w.at.x, PLAYER_CELL[2] + p.y - w.at.y>>

\* screencap: the sample the game shows.
Screen(w) ==
    Sample(Px(UNION {{WallPixel(CellOf(w, p), e) : e \in Edges \ w.map[p]} : p \in Visible(w)}, WHITE)
           @@ IdleLayer @@ FogExcept({CellOf(w, p) : p \in Visible(w)}),
           Some(w.at))

\* Where the party stands once the game has carried out the last action.
Arrived(w, last) ==
    IF (last.tag = "FindFight" \/ (last.tag = "ReturnToTown" /\ ~last.on_city_tile))
       /\ last.direction \in w.map[w.at]
    THEN move_direction(w.at, last.direction)
    ELSE w.at

InitExplore ==
    /\ world \in {w \in {[map |-> m, at |-> p] : m \in Dungeons, p \in UNION {DOMAIN m : m \in Dungeons}} :
                    w.at \in DOMAIN w.map}
    /\ old_state = DefaultState
    /\ snapshot = old_state
    /\ last_action = Act("CloseAd")
    /\ pc = "capture"
    /\ image = with_capacity
    /\ classified = "Ok"
    /\ state = old_state
    /\ action = Act("CloseAd")
    /\ moved = None
    /\ ticks = 0
    /\ state_file = AbsentFile
    /\ Unshared
    /\ query = NoQuery

\* main, lines 202-205 and run, line 249: copy the snapshot and capture the
\* screen, which shows the game after the last action.
Look ==
    /\ pc = "capture"
    /\ ticks < MaxExploreTicks
    /\ snapshot' = old_state
    /\ world' = [world EXCEPT !.at = Arrived(world, last_action)]
    /\ image' = Screen([world EXCEPT !.at = Arrived(world, last_action)])
    /\ pc' = "classify"
    /\ UNCHANGED <<old_state, last_action, classified, state, action, moved, ticks>>
    /\ UNCHANGED <<state_file, shared, query>>

NextExplore ==
    \/ Look
    \/ Classify
    \/ Determine
    \/ Execute
    \/ Store

SpecExplore == InitExplore /\ [][NextExplore]_vars

\* The loop has a step to take: it is inside a tick, or about to start one.
LoopRuns ==
    \/ pc \in {"classify", "determine", "act", "store"}
    \/ pc = "capture" /\ ticks < MaxExploreTicks

\* The loop takes its step and comes to another position.
Turn == LoopRuns /\ pc' \in {"capture", "classify", "determine", "act", "store", "panicked", "halted"}

\* main runs its loop for as long as the process lives: no step of a tick is
\* put off forever.
FairExplore == SpecExplore /\ WF_pc(Turn)

(***************************************************************************)
\* determine_action has returned `action`.
Returned == pc = "act"
\* determine_action has panicked.
PlannerPanicked == pc = "panicked" /\ action.tag = "Panic"

IdleWithPosition ==
    /\ state.state_type.tag = "Dungeon"
    /\ state.dungeon.state.tag = "Idle"
    /\ IsSome(get_position(state))

Position == Unwrap(get_position(state))
CurrentTile == get_current_tile(state.dungeon)
Stairs == get_go_down_tile(state.dungeon)
OnStairs == IsSome(Stairs) /\ Unwrap(Stairs).position = Position
PathTo(goal) == get_next_tile_to_goal(state.dungeon, CurrentTile, goal) # {}

\* The sticky case: exploring, with a FindFight target that has not been reached.
Sticky ==
    /\ IdleWithPosition
    /\ ~has_dead_character(state.dungeon)
    /\ ~OnStairs
    /\ last_action.tag = "FindFight"
    /\ Unwrap(last_action.target).position # Position

StickyTarget == Unwrap(last_action.target)
StickyCounter == last_action.ticks + 1
StairsElsewhere == IsSome(Stairs) /\ Unwrap(Stairs).position # StickyTarget.position

InFight == state.state_type.tag = "Dungeon" /\ state.dungeon.state.tag = "Fight"

\* C2 as stated: for a Dungeon state in Fight, whatever the health of the party,
\* the grid and last_action, the action returned is Fight.
C2_FightAlwaysFights == (Returned /\ InFight) => action.tag = "Fight"

\* C8 as stated, on the cases it names: for a Dungeon/Idle state with a known
\* position whose current tile has no passable edge, or only passable
\* neighbours that are city or staircase-down tiles, determine_action returns
\* an action and does not fail.
C8_FallbackAlwaysActs ==
    ((Returned \/ PlannerPanicked) /\ IdleWithPosition
        /\ NeighbourCandidates(state.dungeon, CurrentTile) = <<>>) =>
        action.tag # "Panic"

PassableDirections ==
    {d \in {"North", "East", "South", "West"} :
        \/ d = "North" /\ CurrentTile.north_passable
        \/ d = "East" /\ CurrentTile.east_passable
        \/ d = "South" /\ CurrentTile.south_passable
        \/ d = "West" /\ CurrentTile.west_passable}

\* The retreat without a city tile to head for.
RetreatWithoutCity ==
    /\ IdleWithPosition
    /\ ~state.dungeon.state.on_city_tile
    /\ has_dead_character(state.dungeon)
    /\ IsNone(get_city_tile(state.dungeon)) \/ ~PathTo(Unwrap(get_city_tile(state.dungeon)))

\* C9 as stated: retreating with a dead member, off the city tile, the city
\* tile unknown or unreachable, the heading returned is a passable neighbour of
\* the current tile, and with more than one such neighbour it never leads to
\* the last known position.
C9_FallbackAvoidsLastPosition ==
    (Returned /\ RetreatWithoutCity) =>
        /\ action.tag = "ReturnToTown"
        /\ action.direction \in PassableDirections
        /\ (Cardinality(PassableDirections) > 1 /\ IsSome(get_position(snapshot))) =>
              move_direction(Position, action.direction) # Unwrap(get_position(snapshot))

\* C10 as stated: exploring off the staircase-down tile with that tile known
\* and a path to it, the call emits FindFight with the staircase-down tile as
\* target, and with counter 1 when the sticky target was another tile.
C10_StairsPreempt ==
    ((Returned \/ PlannerPanicked) /\ IdleWithPosition /\ ~has_dead_character(state.dungeon)
        /\ IsSome(Stairs) /\ ~OnStairs /\ PathTo(Unwrap(Stairs))) =>
        /\ action.tag = "FindFight"
        /\ Unwrap(action.target).position = Unwrap(Stairs).position
        /\ (last_action.tag = "FindFight" /\ StickyTarget.position # Position
              /\ StickyTarget.position # Unwrap(Stairs).position) => action.ticks = 1

(***************************************************************************)
(* Properties of the classifier, stated once get_state has run on `image`  *)
(* with the previous state `snapshot`.                                     *)
(***************************************************************************)
Classified == pc # "classify"

Holds(variant) ==
    CASE variant = "Ad" -> AdPredicate(image)
      [] variant = "TeleportToCity" -> TeleportPredicate(image)
      [] variant = "IdleChest" -> IdleChestPredicate(image)
      [] variant = "Fight" -> FightPredicate(image)
      [] variant = "Idle" -> IdlePredicate(image)
      [] variant = "City" -> CityPredicate(image)
      [] variant = "Main" -> MainPredicate(image)

PredicateOrder == <<"Ad", "TeleportToCity", "IdleChest", "Fight", "Idle", "City", "Main">>

\* The variant of `state`, a Dungeon by its run-state.
Variant ==
    IF state.state_type.tag = "Dungeon" THEN state.dungeon.state.tag ELSE state.state_type.tag

NoPredicateMatches == \A i \in 1..Len(PredicateOrder) : ~Holds(PredicateOrder[i])

C5_FirstPredicateWins ==
    Classified =>
        /\ classified = "Ok" =>
              \E i \in 1..Len(PredicateOrder) :
                  /\ Variant = PredicateOrder[i]
                  /\ Holds(PredicateOrder[i])
                  /\ \A j \in 1..(i - 1) : ~Holds(PredicateOrder[j])
        /\ AdPredicate(image) => classified = "Ok" /\ Variant = "Ad"
        /\ (FightPredicate(image) /\ IdlePredicate(image) /\ classified = "Ok"
              /\ ~AdPredicate(image) /\ ~TeleportPredicate(image) /\ ~IdleChestPredicate(image)) =>
              Variant = "Fight"

\* A sample satisfying both the Fight and the Idle predicate, classified Fight.
C5_Witness ==
    /\ Classified /\ classified = "Ok"
    /\ FightPredicate(image) /\ IdlePredicate(image)
    /\ Variant = "Fight"

\* The tiles of the tick, had the sample reported the previous position itself.
TilesAroundLastPosition ==
    LET reported == [image EXCEPT !.info.coordinates = get_position(snapshot)]
        new == DungeonNew(state.dungeon.state, reported, get_position(snapshot))
    IN  merge(IntoStateWith(StateType("Dungeon"), new.dungeon), snapshot).dungeon.tiles

\* C6 as stated: when the sample carries no coordinate and a Dungeon variant is
\* built, the tiles of the tick are keyed around the previous state's last
\* known coordinate, as if the sample had reported it.
C6_TilesAroundLastPosition ==
    (Classified /\ classified = "Ok" /\ state.state_type.tag = "Dungeon"
        /\ IsNone(image.info.coordinates) /\ IsSome(get_position(snapshot))) =>
        state.dungeon.tiles = TilesAroundLastPosition

\* The branches of determine_action that call get_current_tile.
ConsultsCurrentTile ==
    /\ state.state_type.tag = "Dungeon"
    /\ \/ /\ state.dungeon.state.tag = "Idle"
          /\ ~(has_dead_character(state.dungeon) /\ state.dungeon.state.on_city_tile)
       \/ /\ state.dungeon.state.tag = "Fight"
          /\ has_dead_character(state.dungeon)

\* C7 as stated: whenever determine_action is about to consult the current tile
\* of the state get_state produced, the position of that state is known.
C7_PositionKnown ==
    (pc = "determine" /\ ConsultsCurrentTile) => IsSome(get_position(state))

(***************************************************************************)
(* Properties of the control loop.                                         *)
(***************************************************************************)
\* C3 as stated: after a classification that failed with UnknownState the loop
\* is on its way to the next tick, the shared snapshot is the previous tick's
\* state and no action was issued.
C3_UnknownStateSkipsTick ==
    classified = "UnknownState" =>
        /\ pc \in {"capture", "classify"}
        /\ old_state = snapshot

(***************************************************************************)
(* The planner arm by arm.                                                 *)
(***************************************************************************)
\* determine_action has answered: with an action, or by panicking.
Determined == Returned \/ PlannerPanicked

InDungeon(tag) == state.state_type.tag = "Dungeon" /\ state.dungeon.state.tag = tag

NobodyDead == ~has_dead_character(state.dungeon)

\* C11: in Dungeon/Idle with nobody dead and a known position, when the
\* staircase-down tile the grid knows lies at the current position,
\* determine_action returns GoDown, whatever last_action, the previous
\* position, the city tile and the rest of the grid are.
C11_OnStairsGoesDown ==
    (Determined /\ InDungeon("Idle") /\ NobodyDead
        /\ IsSome(get_position(state)) /\ OnStairs)
    => action = Act("GoDown")

\* A sticky target elsewhere, a previous position and a second tile on the
\* grid, and still GoDown.
C11_Witness ==
    /\ Returned /\ InDungeon("Idle") /\ NobodyDead
    /\ IsSome(get_position(state)) /\ OnStairs
    /\ last_action.tag = "FindFight" /\ last_action.ticks = STUCK_LIMIT
    /\ Unwrap(last_action.target).position # Position
    /\ IsSome(get_position(snapshot))
    /\ Len(state.dungeon.tiles) = 2
    /\ action = Act("GoDown")

SomebodyDead == has_dead_character(state.dungeon)

\* C12: in Dungeon/Idle(on_city_tile = true) with a dead party member
\* determine_action returns ReturnToTown(true, East), whatever the grid, the
\* position (known or not), last_action and the known city tile are.
C12_OnCityTileReturnsToTown ==
    (Determined /\ InDungeon("Idle") /\ state.dungeon.state.on_city_tile /\ SomebodyDead)
    => action = ReturnToTown(TRUE, "East")

\* On the city button with a dead member while the grid places the city tile
\* on the east neighbour, behind walls.
C12_Witness ==
    /\ Returned /\ InDungeon("Idle") /\ state.dungeon.state.on_city_tile /\ SomebodyDead
    /\ IsSome(get_position(state))
    /\ IsSome(get_city_tile(state.dungeon))
    /\ Unwrap(get_city_tile(state.dungeon)).position = East
    /\ ~CurrentTile.east_passable
    /\ action = ReturnToTown(TRUE, "East")

\* The answer determine_action owes to a state type that decides alone.
FixedAnswer ==
    CASE state.state_type.tag = "Ad" -> Act("CloseAd")
      [] state.state_type.tag = "Main" -> Act("GotoTown")
      [] state.state_type.tag = "City" ->
           IF state.state_type.has_dead THEN Act("Resurrect") ELSE Act("GotoDungeon")
      [] OTHER -> Act("OpenChest")

DecidedByType ==
    state.state_type.tag \in {"Ad", "Main", "City"} \/ InDungeon("IdleChest")

\* C14: for Ad, Main, City and Dungeon/IdleChest the action depends on the
\* state type alone: CloseAd, GotoTown, Resurrect for City(true), GotoDungeon
\* for City(false), OpenChest, for every last_action, previous position,
\* party and grid.
C14_TypeAloneDecides == (Determined /\ DecidedByType) => action = FixedAnswer

\* City(true) although the party of the state has nobody dead, after a
\* FindFight and with a previous position: Resurrect all the same.
C14_Witness ==
    /\ Returned /\ state.state_type = City(TRUE) /\ NobodyDead
    /\ last_action.tag = "FindFight"
    /\ IsSome(get_position(snapshot))
    /\ state.dungeon.tiles # <<>>
    /\ action = Act("Resurrect")

\* C15: on a TeleportToCity state determine_action returns TeleportToCity
\* when at least one of the four party members is Dead, and
\* CancelTeleportToCity otherwise.
C15_TeleportOnlyWithDead ==
    (Determined /\ state.state_type.tag = "TeleportToCity")
    => action = IF \E i \in 1..4 : state.dungeon.characters[i] = "Dead"
                THEN Act("TeleportToCity") ELSE Act("CancelTeleportToCity")

\* A low but living party cancels the teleport.
C15_Witness ==
    /\ Returned /\ state.state_type.tag = "TeleportToCity"
    /\ has_low_character(state.dungeon) /\ NobodyDead
    /\ action = Act("CancelTeleportToCity")

CityTile == Unwrap(get_city_tile(state.dungeon))

\* Length of a shortest path from a position to the known city tile, -1 without one.
CityDistance(from) == PathCost(state.dungeon, from, CityTile.position)

\* Retreating off the city button with a dead member, a known position and a
\* known city tile that a path leads to.
RetreatWithCity ==
    /\ InDungeon("Idle") /\ ~state.dungeon.state.on_city_tile /\ SomebodyDead
    /\ IsSome(get_position(state))
    /\ IsSome(get_city_tile(state.dungeon))
    /\ CityDistance(Position) >= 0

\* C13: in Dungeon/Idle(false) with a dead party member and a known city tile
\* reachable from the current tile, determine_action returns
\* ReturnToTown(false, d) and one step in d from the current position strictly
\* decreases the path distance to the city tile.
C13_StepsTowardsCity ==
    (Determined /\ RetreatWithCity)
    => /\ action.tag = "ReturnToTown" /\ ~action.on_city_tile
       /\ CityDistance(move_direction(Position, action.direction)) >= 0
       /\ CityDistance(move_direction(Position, action.direction)) < CityDistance(Position)

(***************************************************************************)
(* State::merge.                                                           *)
(***************************************************************************)
Merged == pc = "merged"
NewTiles == snapshot.dungeon.tiles
OldTiles == old_state.dungeon.tiles
MergedTiles == state.dungeon.tiles

\* The tiles of a grid at a position.
TilesAt(tiles, position) == {i \in 1..Len(tiles) : tiles[i].position = position}

PositionsOf(tiles) == {tiles[i].position : i \in 1..Len(tiles)}

\* Whether a grid has a visited tile at a position.
VisitedAt(tiles, position) == \E i \in TilesAt(tiles, position) : tiles[i].visited

\* C16: visited is monotonic under merge: every position with a visited tile
\* in the old or in the new grid has its tile visited in new.merge(old), and
\* no tile of the new grid goes from visited to unvisited.
C16_VisitedMonotonic ==
    Merged =>
        /\ \A p \in PositionsOf(NewTiles) \cup PositionsOf(OldTiles) :
              (VisitedAt(NewTiles, p) \/ VisitedAt(OldTiles, p))
              => \A i \in TilesAt(MergedTiles, p) : MergedTiles[i].visited
        /\ \A i \in 1..Len(NewTiles) :
              NewTiles[i].visited
              => MergedTiles[i].position = NewTiles[i].position /\ MergedTiles[i].visited

\* A position visited only in the old grid and another visited only in the
\* new one, both visited after the merge.
C16_Witness ==
    /\ Merged
    /\ \E p \in PositionsOf(NewTiles) \cap PositionsOf(OldTiles) :
          /\ VisitedAt(OldTiles, p) /\ ~VisitedAt(NewTiles, p)
          /\ VisitedAt(MergedTiles, p)
    /\ \E p \in PositionsOf(NewTiles) \cap PositionsOf(OldTiles) :
          /\ ~VisitedAt(OldTiles, p) /\ VisitedAt(NewTiles, p)
          /\ VisitedAt(MergedTiles, p)

\* C17: merge is idempotent on identical inputs: when the old grid is the new
\* grid (tiles at pairwise distinct positions), the merge has exactly the
\* tiles of that grid, in order, with every field unchanged, and the rest of
\* the state as it was.
C17_MergeWithItself ==
    (Merged /\ OldTiles = NewTiles) => (MergedTiles = NewTiles /\ state = snapshot)

\* A grid of two tiles, one visited and one not, one of them a city tile,
\* merged with itself.
C17_Witness ==
    /\ Merged /\ OldTiles = NewTiles
    /\ Len(NewTiles) = 2
    /\ NewTiles[1].visited /\ ~NewTiles[2].visited
    /\ NewTiles[2].is_city
    /\ MergedTiles = NewTiles

CityTiles(tiles) == {i \in 1..Len(tiles) : tiles[i].is_city}
DownTiles(tiles) == {i \in 1..Len(tiles) : tiles[i].is_go_down}
CityPositions(tiles) == {tiles[i].position : i \in CityTiles(tiles)}
DownPositions(tiles) == {tiles[i].position : i \in DownTiles(tiles)}

\* C18: marker propagation: when the new grid has a tile with is_city (resp.
\* is_go_down), the tiles carrying that marker in the result are exactly the
\* tiles carrying it in the new grid; when it has none, the positions marked
\* in the result are exactly the positions marked in the old grid.  So with
\* at most one city and one staircase-down tile in each grid there is at most
\* one of each in the merged grid.
C18_MarkerPropagation ==
    Merged =>
        /\ IF CityTiles(NewTiles) # {}
           THEN CityTiles(MergedTiles) = CityTiles(NewTiles)
           ELSE CityPositions(MergedTiles) = CityPositions(OldTiles)
        /\ IF DownTiles(NewTiles) # {}
           THEN DownTiles(MergedTiles) = DownTiles(NewTiles)
           ELSE DownPositions(MergedTiles) = DownPositions(OldTiles)
        /\ (Cardinality(CityTiles(NewTiles)) <= 1 /\ Cardinality(CityTiles(OldTiles)) <= 1)
              => Cardinality(CityTiles(MergedTiles)) <= 1
        /\ (Cardinality(DownTiles(NewTiles)) <= 1 /\ Cardinality(DownTiles(OldTiles)) <= 1)
              => Cardinality(DownTiles(MergedTiles)) <= 1

\* The new grid has a city tile and no stairs, the old grid has a city tile
\* elsewhere and stairs: the merge keeps the city tile of the new grid only
\* and takes the stairs of the old grid.
C18_Witness ==
    /\ Merged
    /\ CityTiles(NewTiles) # {}
    /\ CityPositions(OldTiles) # {}
    /\ CityPositions(OldTiles) \cap CityPositions(NewTiles) = {}
    /\ CityPositions(MergedTiles) = CityPositions(NewTiles)
    /\ DownTiles(NewTiles) = {} /\ DownTiles(OldTiles) # {}
    /\ DownPositions(MergedTiles) = DownPositions(OldTiles)

\* What merge leaves of a tile whatever it finds: everything but the two
\* markers and, for a tile of the new grid, visited.
SameSurvey(a, b) ==
    /\ a.position = b.position /\ a.explored = b.explored /\ a.trap = b.trap
    /\ a.north_passable = b.north_passable /\ a.east_passable = b.east_passable
    /\ a.south_passable = b.south_passable /\ a.west_passable = b.west_passable

\* C19: merge never drops knowledge: every old tile whose position the new
\* grid lacks is in the result with its visited, explored and four
\* passability flags as in the old grid, and every tile of the new grid is
\* in the result.
C19_NothingDropped ==
    Merged =>
        /\ \A j \in 1..Len(OldTiles) :
              OldTiles[j].position \notin PositionsOf(NewTiles)
              => \E i \in TilesAt(MergedTiles, OldTiles[j].position) :
                    /\ SameSurvey(MergedTiles[i], OldTiles[j])
                    /\ MergedTiles[i].visited = OldTiles[j].visited
        /\ \A i \in 1..Len(NewTiles) : SameSurvey(MergedTiles[i], NewTiles[i])

\* An old city tile, unvisited and walled, at a position the new grid lacks,
\* while the new grid has its own city tile: the tile is pushed with its
\* survey and visited flag as they were.
C19_Witness ==
    /\ Merged
    /\ Len(NewTiles) = 1 /\ Len(OldTiles) = 2
    /\ \E j \in 1..2 :
          /\ OldTiles[j].position \notin PositionsOf(NewTiles)
          /\ ~OldTiles[j].visited /\ ~OldTiles[j].north_passable
          /\ OldTiles[j].is_city
          /\ CityTiles(NewTiles) # {}
          /\ \E i \in TilesAt(MergedTiles, OldTiles[j].position) :
                SameSurvey(MergedTiles[i], OldTiles[j]) /\ ~MergedTiles[i].visited
    /\ Len(MergedTiles) = 2

(***************************************************************************)
(* Dungeon::get_next_tile_to_goal on an open playfield.                    *)
(***************************************************************************)
Walking == pc \in {"walk", "arrived", "lost"}
WalkGoal == Unwrap(last_action.target).position
WalkStart == Unwrap(get_position(snapshot))

\* C20: on a fully open grid, for distinct positions from and to of the
\* playfield, get_next_tile_to_goal returns a tile 4-adjacent to from whose
\* Manhattan distance to to is one less than that of from, so the returned
\* steps reach to in exactly Manhattan-distance many steps.
C20_OpenGridManhattan ==
    Walking =>
        /\ pc # "lost"
        /\ IsSome(moved) =>
              /\ manhattan(Position, Unwrap(moved)) = 1
              /\ manhattan(Position, WalkGoal) = manhattan(Unwrap(moved), WalkGoal) - 1
        /\ ticks + manhattan(Position, WalkGoal) = manhattan(WalkStart, WalkGoal)
        /\ (pc = "arrived") = (Position = WalkGoal)

\* A walk of MaxWalk steps that turns a corner and ends on the border of the playfield.
C20_Witness ==
    /\ pc = "arrived" /\ Position = WalkGoal
    /\ ticks = MaxWalk
    /\ manhattan(WalkStart, WalkGoal) = MaxWalk
    /\ WalkStart.x # WalkGoal.x /\ WalkStart.y # WalkGoal.y
    /\ WalkGoal = Coords(PLAYFIELD_MAX, PLAYFIELD_MAX)
    /\ state.dungeon.tiles # <<>>

(***************************************************************************)
(* Reachability on the grid, searched layer by layer from the start.       *)
(***************************************************************************)
InPlayfield(c) == c.x >= 0 /\ c.x <= PLAYFIELD_MAX /\ c.y >= 0 /\ c.y <= PLAYFIELD_MAX

\* The four edges of a position: where each leads, whether the tile at the
\* position lets one leave through it, and whether the position has room
\* left in that direction (above 0 going north or west, below 29 going east
\* or south).
Exits(dungeon, p) ==
    LET tile == get_tile(dungeon, p.x, p.y)
    IN  {[to |-> Coords(p.x, p.y - 1), open |-> tile.north_passable, room |-> p.y > 0],
         [to |-> Coords(p.x + 1, p.y), open |-> tile.east_passable, room |-> p.x < PLAYFIELD_MAX],
         [to |-> Coords(p.x, p.y + 1), open |-> tile.south_passable, room |-> p.y < PLAYFIELD_MAX],
         [to |-> Coords(p.x - 1, p.y), open |-> tile.west_passable, room |-> p.x > 0]}

\* The steps out of a position through open edges to u32 coordinates: with
\* arrive_inside those that end inside the playfield, without it those that
\* start with room left.
RouteSteps(dungeon, p, arrive_inside) ==
    {e.to : e \in {f \in Exits(dungeon, p) :
                      /\ f.open /\ f.to.x >= 0 /\ f.to.y >= 0
                      /\ IF arrive_inside THEN InPlayfield(f.to) ELSE f.room}}

RECURSIVE RouteSearch(_, _, _, _, _, _)
\* Number of steps of a shortest sequence of steps from the front to the
\* goal, -1 when the front runs empty first.
RouteSearch(dungeon, goal, arrive_inside, front, seen, k) ==
    IF goal \in front THEN k
    ELSE IF front = {} THEN -1
    ELSE Let((UNION {RouteSteps(dungeon, p, arrive_inside) : p \in front}) \ seen, LAMBDA next :
         RouteSearch(dungeon, goal, arrive_inside, next, seen \cup next, k + 1))

RouteDistance(from, goal, arrive_inside) ==
    RouteSearch(state.dungeon, goal, arrive_inside, {from}, {from}, 0)

Routing == pc \in {"routed", "unroutable"}
RouteGoal == Unwrap(last_action.target).position

\* What get_next_tile_to_goal owes, for one of the two readings of a step:
\* None exactly when no sequence of steps leads to the goal, else a tile one
\* step away from which a shortest sequence goes on.
RoutesAsSearched(arrive_inside) ==
    /\ (pc = "unroutable") = (RouteDistance(Position, RouteGoal, arrive_inside) = -1)
    /\ pc = "routed" =>
          /\ Unwrap(moved) \in RouteSteps(state.dungeon, Position, arrive_inside)
          /\ RouteDistance(Unwrap(moved), RouteGoal, arrive_inside)
                = RouteDistance(Position, RouteGoal, arrive_inside) - 1

\* C21 as stated: for from different from goal, get_next_tile_to_goal
\* returns None exactly when no sequence of steps leads from from to goal,
\* each step leaving a tile through an edge its own flag allows (absent
\* tiles fully open) and staying within 0..29 on both axes; a tile returned
\* is the second node of a shortest such sequence.
C21_NoneIffNoPathInside == Routing => RoutesAsSearched(TRUE)

\* What the search does decide: the same, where a step north or west needs a
\* coordinate above 0 to start from and a step east or south one below 29,
\* wherever it ends, so that a start beyond the playfield can walk back in.
RoutesWithRoomLeft == Routing => RoutesAsSearched(FALSE)

\* A start two tiles beyond the east border, a goal on the border, and the
\* tile between them returned.
RoutedBackInside ==
    /\ pc = "routed"
    /\ Position = Coords(PLAYFIELD_MAX + 2, PLAYFIELD_MAX)
    /\ RouteGoal = Coords(PLAYFIELD_MAX, PLAYFIELD_MAX)
    /\ moved = Some(Coords(PLAYFIELD_MAX + 1, PLAYFIELD_MAX))

\* The steps out of a position through the open edges of its tile, to any
\* u32 coordinate.
OpenSteps(dungeon, p) ==
    {e.to : e \in {f \in Exits(dungeon, p) : f.open /\ f.to.x >= 0 /\ f.to.y >= 0}}

RECURSIVE VisitedRegion(_, _)
\* The start and everything open steps lead to through visited tiles: every
\* position reachable without passing an unvisited one.  All of it is
\* visited exactly when everything reachable is.
VisitedRegion(dungeon, region) ==
    Let(region \cup UNION {OpenSteps(dungeon, p) :
                             p \in {q \in region : get_tile(dungeon, q.x, q.y).visited}},
        LAMBDA grown :
        IF grown = region THEN region ELSE VisitedRegion(dungeon, grown))

Sought == pc \in {"found", "nowhere"}
SeekRegion == VisitedRegion(state.dungeon, {Position})

\* C22: get_closest_unvisited_tile returns None if and only if every tile
\* reachable from the start through edges the tiles' own passability flags
\* allow, the start included, is visited; a tile it returns is not visited.
C22_NoneIffAllVisited ==
    Sought =>
        /\ (pc = "nowhere") = (\A p \in SeekRegion : get_tile(state.dungeon, p.x, p.y).visited)
        /\ pc = "found" =>
              /\ ~Unwrap(action.target).visited
              /\ Unwrap(action.target).position \in SeekRegion
              /\ Unwrap(action.target)
                   = get_tile(state.dungeon, Unwrap(action.target).position.x,
                              Unwrap(action.target).position.y)

\* None from the middle of a walled corridor of three visited tiles.
C22_Witness ==
    /\ pc = "nowhere"
    /\ Cardinality(SeekRegion) = 3
    /\ Position = Coords(1, 0)

(***************************************************************************)
(* run_action.                                                             *)
(***************************************************************************)
\* run_action has been called: it has returned, or it has panicked.
Executed == pc = "store" \/ (pc = "panicked" /\ action.tag # "Panic")

Moves == action.tag = "FindFight" \/ (action.tag = "ReturnToTown" /\ ~action.on_city_tile)

\* One grid step from a position, in the integers.
GridStep(c, direction) ==
    CASE direction = "North" -> Coords(c.x, c.y - 1)
      [] direction = "East" -> Coords(c.x + 1, c.y)
      [] direction = "South" -> Coords(c.x, c.y + 1)
      [] direction = "West" -> Coords(c.x - 1, c.y)

\* C23: run_action returns Some(current position moved one grid step in the
\* action's direction) for FindFight and for ReturnToTown(false, _), None for
\* every other action, and leaves the position of the state as it was.
C23_RunActionReturnsStep ==
    Executed =>
        /\ pc = "store"
        /\ moved = IF Moves THEN Some(GridStep(Unwrap(get_position(snapshot)), action.direction))
                   ELSE None
        /\ get_position(state) = get_position(snapshot)

(***************************************************************************)
(* The control loop.                                                       *)
(***************************************************************************)
\* C24: once the action of a tick is Resurrect the loop halts, and nothing is
\* captured, classified or done after that tick; after every other action
\* the loop goes on to another tick.
C24_ResurrectHalts ==
    [][/\ pc # "halted"
       /\ pc = "store" => pc' = (IF action.tag = "Resurrect" THEN "halted" ELSE "capture")
       /\ pc' = "halted" => (pc = "store" /\ action.tag = "Resurrect")]_vars

\* A first tick after which the loop went on, and a second that ended in
\* Resurrect and halted it.
C24_Witness ==
    /\ pc = "halted" /\ action.tag = "Resurrect" /\ last_action.tag = "Resurrect"
    /\ ticks = 2

(***************************************************************************)
(* Start-up.                                                               *)
(***************************************************************************)
\* main has built the shared snapshot and the loop has not captured yet.
AtStartup == ticks = 0 /\ image = with_capacity

\* C27: when main starts with a state file that is missing, unreadable or no
\* State in JSON, it does not panic, and the shared snapshot it starts from is
\* the default state: state type Main, no tiles, no position.
C27_BadStateFileIsNotFatal ==
    (AtStartup /\ state_file.kind # "valid") =>
        /\ pc = "capture"
        /\ old_state.state_type = StateType("Main")
        /\ old_state.dungeon.tiles = <<>>
        /\ get_position(old_state) = None
        /\ snapshot = old_state

\* main has started from a file whose text is no State.
C27_Witness ==
    AtStartup /\ state_file = InvalidFile /\ pc = "capture" /\ old_state = DefaultState

(***************************************************************************)
(* The mutex around the shared snapshot.                                   *)
(***************************************************************************)
\* The control loop is inside a critical section.
LoopInside == pc \in {"copy", "store_type", "store_dungeon"}

\* The control loop waits for the mutex.
LoopWaiting == pc \in {"lock_copy", "lock_store"} /\ guard # "free"

\* The handlers inside their critical section.
HandlersInside == {w \in HttpWorkers : http[w].pc = "locked"}

\* C25: whoever waits for the mutex around the shared snapshot, the control
\* loop or a handler of the status thread, has waited no longer than the
\* time-out, and a wait that has reached the time-out with the mutex still
\* held can only end in a failure.
C25_BoundedWaitForEveryone ==
    /\ \A w \in HttpWorkers : http[w].waited <= LOCK_TIMEOUT
    /\ loop_waited <= LOCK_TIMEOUT

\* The same bound for the handlers of the status thread alone.
HandlersWaitBounded == \A w \in HttpWorkers : http[w].waited <= LOCK_TIMEOUT

\* A handler that has waited the whole time-out with the mutex still held fails next,
\* if it moves at all.
HandlersFailExplicitly ==
    [][\A w \in HttpWorkers :
          (http[w].pc = "lock" /\ http[w].waited = LOCK_TIMEOUT /\ guard # "free"
           /\ http'[w] # http[w]) => http'[w].pc = "failed"]_vars

\* A handler has given up after the time-out.
HandlerTimedOut == \E w \in HttpWorkers : http[w].pc = "failed" /\ http[w].waited = LOCK_TIMEOUT

\* The control loop has waited longer than the time-out and still waits.
LoopWaitedPastTimeout == LoopWaiting /\ loop_waited > LOCK_TIMEOUT

\* C26: under every interleaving of the control loop and the handlers, at most
\* one of them is inside a critical section on the shared snapshot and it is
\* the one that holds the mutex; a /data response carries a whole snapshot,
\* the state loaded at start-up or the state stored at the end of a completed
\* tick; and the control loop holds the mutex only while it copies or stores
\* the snapshot, not while run captures, classifies, plans and acts.
C26_ExclusiveWholeSnapshots ==
    /\ Cardinality(HandlersInside) + (IF LoopInside THEN 1 ELSE 0) <= 1
    /\ \A w \in HandlersInside : guard = w
    /\ LoopInside <=> guard = "main"
    /\ \A w \in HttpWorkers : IsSome(http[w].body) => Unwrap(http[w].body) \in published
    /\ ~LoopInside => old_state \in published

\* A handler has answered with the state stored at the end of the first tick,
\* which differs from the loaded state in both fields, while the loop is in its
\* second tick, and the other handler waits for the loop to finish storing.
C26_Witness ==
    /\ ticks = 1
    /\ pc = "store_dungeon"
    /\ \E w \in HttpWorkers :
          /\ http[w].pc = "responded"
          /\ Unwrap(http[w].body) \in published
          /\ Unwrap(http[w].body).state_type # load_state(AbsentFile).state.state_type
          /\ Unwrap(http[w].body).dungeon # load_state(AbsentFile).state.dungeon
          /\ Unwrap(http[w].body) # old_state
          /\ \E v \in HttpWorkers \ {w} : http[v].pc = "lock" /\ http[v].waited > 0

(***************************************************************************)
(* Bitmap::get_pixel in the two builds.                                    *)
(***************************************************************************)
\* A call of get_pixel has ended.
PixelQueried == pc \in {"pixel_read", "panicked"} /\ IsSome(query.outcome)

\* The coordinate asked for is in the sample.
QuerySampled == query.at \in DOMAIN image.pixels

\* C28: get_pixel on a coordinate that was never sampled panics in a build with
\* debug assertions and returns the sentinel colour (0,0,0) in a build without
\* them; on a sampled coordinate it returns the stored colour in both builds.
C28_LoudInDebugSentinelInRelease ==
    PixelQueried =>
        IF QuerySampled
        THEN /\ ~Unwrap(query.outcome).panic
             /\ Unwrap(query.outcome).color = image.pixels[query.at]
        ELSE IF query.build = "debug"
        THEN Unwrap(query.outcome).panic
        ELSE /\ ~Unwrap(query.outcome).panic
             /\ Unwrap(query.outcome).color = SENTINEL

\* What the two builds do: the stored colour for a sampled coordinate; for an
\* unsampled one the sentinel with debug assertions and a panic without them.
PixelAsCompiled ==
    PixelQueried =>
        IF QuerySampled
        THEN /\ ~Unwrap(query.outcome).panic
             /\ Unwrap(query.outcome).color = image.pixels[query.at]
        ELSE IF query.build = "release"
        THEN Unwrap(query.outcome).panic
        ELSE /\ ~Unwrap(query.outcome).panic
             /\ Unwrap(query.outcome).color = SENTINEL

\* A build without debug assertions has panicked on an unsampled coordinate.
ReleasePanicked ==
    PixelQueried /\ ~QuerySampled /\ query.build = "release" /\ pc = "panicked"

(***************************************************************************)
(* Stairs down in freshly built grids.                                     *)
(***************************************************************************)
\* get_state has built a dungeon state from the sample.
Surveyed == pc = "determine" /\ classified = "Ok" /\ state.state_type.tag = "Dungeon"

\* The grid position of the cell east of the player in the sample.
EastPosition == Coords(Unwrap(image.info.coordinates).x + 1, Unwrap(image.info.coordinates).y)

\* The sample with the four marker pixels of the cell east of the player repainted.
Repainted(pattern) == [image EXCEPT !.pixels = pattern @@ @]

\* A sample shows the stairs-down marker on the cell east of the player: its
\* marker pixel and the pixel at the second offset are in a marker colour, and
\* the cell does not match the stairs-up pattern.
ShowsStairsDown(sample) ==
    /\ get_pixel(sample, MarkerPixel(EAST_CELL)[1], MarkerPixel(EAST_CELL)[2])
          \in {MARKER, MARKER_FADED}
    /\ get_pixel(sample, MarkerPixel(EAST_CELL)[1] + 4, MarkerPixel(EAST_CELL)[2] + 8)
          \in {MARKER, MARKER_FADED}
    /\ ~is_go_up(sample, MarkerPixel(EAST_CELL)[1], MarkerPixel(EAST_CELL)[2])

\* C29: for a window cell other than tile (15,15) there is a way to paint its
\* marker pixels, the marker pixel and the second offset pixel in a marker
\* colour and the cell not matching the stairs-up pattern, for which get_tiles
\* builds a tile marked is_go_down.
C29_StairsDownDetected ==
    (Surveyed /\ EastPosition # Coords(15, 15)) =>
        \E pattern \in StairPatterns(EAST_CELL) :
           /\ ShowsStairsDown(Repainted(pattern))
           /\ CellTile(WindowBase(image.info), Repainted(pattern),
                       EAST_CELL[1], EAST_CELL[2]).is_go_down

\* No tile of a freshly built grid is marked is_go_down, whatever the sample shows.
NoStairsDownInFreshGrids ==
    Surveyed => \A i \in 1..Len(state.dungeon.tiles) : ~state.dungeon.tiles[i].is_go_down

\* A grid has been built from a sample that shows the marker east of the player.
SurveyedStairsDown ==
    /\ Surveyed /\ ShowsStairsDown(image) /\ EastPosition # Coords(15, 15)
    /\ \E i \in 1..Len(state.dungeon.tiles) : state.dungeon.tiles[i].position = EastPosition

\* The planner never answers GoDown in a run of the control loop that starts
\* from a grid without stairs.
NeverGoesDown == action.tag # "GoDown"

(***************************************************************************)
(* The position across ticks.                                              *)
(***************************************************************************)
\* get_state has returned a state for the sample of a tick that began with a
\* known position.
ClassifiedWithPosition ==
    pc = "determine" /\ classified = "Ok" /\ IsSome(get_position(snapshot))

\* C30: a tick that begins with a known position and whose sample is classified
\* ends with a known position, whatever the state type of the sample; when the
\* sample carries no coordinate, the position is the one the tick began with.
C30_PositionStaysKnown ==
    ClassifiedWithPosition =>
        /\ IsSome(get_position(state))
        /\ IsNone(image.info.coordinates) => get_position(state) = get_position(snapshot)

\* The same for the samples classified as a dungeon screen.
PositionKeptInDungeon ==
    (ClassifiedWithPosition /\ state.state_type.tag = "Dungeon") =>
        /\ IsSome(get_position(state))
        /\ IsNone(image.info.coordinates) => get_position(state) = get_position(snapshot)

\* The samples classified as Ad, Main, City or TeleportToCity leave no position.
PositionLostOutsideDungeon ==
    (ClassifiedWithPosition /\ state.state_type.tag # "Dungeon") => IsNone(get_position(state))

\* A dungeon sample without a coordinate has been classified in a tick that
\* began with a known position.
FellBackOnPosition ==
    /\ ClassifiedWithPosition /\ state.state_type.tag = "Dungeon"
    /\ IsNone(image.info.coordinates)
    /\ get_position(state) = get_position(snapshot)

\* The position is gone after a tick classified as the main menu, and the next
\* tick begins without it.
PositionForgotten ==
    /\ ticks = 1 /\ pc = "classify"
    /\ old_state.state_type.tag = "Main"
    /\ IsNone(get_position(snapshot))
    /\ state_file.kind = "valid"

(***************************************************************************)
(* The teleport prompt after a death.                                      *)
(***************************************************************************)
\* determine_action has answered a tick classified TeleportToCity that began
\* with the state of a dungeon tick on which a member of the party was dead.
TeleportAfterDeath ==
    /\ pc = "act"
    /\ ticks >= 1
    /\ state.state_type.tag = "TeleportToCity"
    /\ snapshot.state_type.tag = "Dungeon"
    /\ has_dead_character(snapshot.dungeon)

\* C31: when the tick after a dungeon tick with a dead member of the party is
\* classified TeleportToCity, the state get_state returns still has a dead
\* member and determine_action answers TeleportToCity.
C31_TeleportConfirmedAfterDeath ==
    TeleportAfterDeath =>
        /\ has_dead_character(state.dungeon)
        /\ action.tag = "TeleportToCity"

\* What happens instead: the state has no dead member and the teleport is cancelled.
TeleportCancelledAfterDeath ==
    TeleportAfterDeath =>
        /\ ~has_dead_character(state.dungeon)
        /\ state.dungeon.characters = DefaultCharacters
        /\ action.tag = "CancelTeleportToCity"

\* Whatever came before, a tick classified TeleportToCity is answered with
\* CancelTeleportToCity.
TeleportAlwaysCancelled ==
    (pc = "act" /\ state.state_type.tag = "TeleportToCity") =>
        action.tag = "CancelTeleportToCity"

(***************************************************************************)
(* Grid construction.                                                      *)
(***************************************************************************)
\* get_state has run on the sample.
Constructed == pc \in {"determine", "panicked"}

\* C32: Dungeon::new returns a grid for every sample and every player position,
\* known or not: construction never panics, and every tile it returns has a
\* position on the grid, the cells that would lie at a negative position being
\* left out.
C32_ConstructionTotal ==
    Constructed =>
        /\ classified = "Ok"
        /\ \A i \in 1..Len(state.dungeon.tiles) :
              state.dungeon.tiles[i].position.x >= 0 /\ state.dungeon.tiles[i].position.y >= 0

\* The sample shows tile (22, 14) with no wall on its north edge.
ShowsOpenTwentyTwoFourteen ==
    /\ IsSome(image.info.coordinates)
    /\ \E cell \in {WEST_CELL, PLAYER_CELL, EAST_CELL} :
          /\ Unwrap(image.info.coordinates).x + cell[1] - PLAYER_CELL[1] = 22
          /\ Unwrap(image.info.coordinates).y = 14
          /\ WallPixel(cell, "North") \notin DOMAIN image.pixels

\* Construction panics exactly on the samples that show tile (22, 14) open to
\* the north, and on the others it returns tiles at positions on the grid only.
ConstructionFailsAtOneTile ==
    Constructed =>
        /\ classified = "Panic" <=> ShowsOpenTwentyTwoFourteen
        /\ classified # "Panic" =>
              /\ classified = "Ok"
              /\ \A i \in 1..Len(state.dungeon.tiles) :
                    state.dungeon.tiles[i].position.x >= 0
                    /\ state.dungeon.tiles[i].position.y >= 0

\* A grid has been built at the origin: the cell west of the player is left out.
SkippedOffGrid ==
    /\ Constructed /\ classified = "Ok"
    /\ image.info.coordinates = Some(Coords(0, 0))
    /\ Len(state.dungeon.tiles) = 2

(***************************************************************************)
(* Subtractions at coordinate 0.                                           *)
(***************************************************************************)
\* determine_action has taken a retreat branch that ends in
\* get_random_tile_from_current: a dead member, no city button, and no city tile
\* known or no path to it.
PickedNeighbour == Determined /\ RetreatWithoutCity

\* The neighbour lookups of get_random_tile_from_current on the current tile
\* subtract 1 from a coordinate that is 0.
LookupBelowZero ==
    \/ get_current_tile(state.dungeon).north_passable /\ Unwrap(get_position(state)).y = 0
    \/ get_current_tile(state.dungeon).west_passable /\ Unwrap(get_position(state)).x = 0

\* run_action is about to predict the position after a move north from y = 0
\* or west from x = 0.
StepBelowZero ==
    \/ action.direction = "North" /\ Unwrap(get_position(state)).y = 0
    \/ action.direction = "West" /\ Unwrap(get_position(state)).x = 0

\* C33: no coordinate computation goes below zero: get_random_tile_from_current
\* looks up no neighbour north of y = 0 or west of x = 0, and no action
\* determine_action emits makes move_direction step north from y = 0 or west
\* from x = 0, also when the current tile is absent from the grid.
C33_NothingBelowZero ==
    /\ PickedNeighbour => ~LookupBelowZero
    /\ (pc = "act" /\ Moves) => ~StepBelowZero

\* Away from the two borders neither computation goes below zero.
NothingBelowZeroInside ==
    /\ (PickedNeighbour /\ Unwrap(get_position(state)).x > 0
        /\ Unwrap(get_position(state)).y > 0) => ~LookupBelowZero
    /\ (pc = "act" /\ Moves /\ Unwrap(get_position(state)).x > 0
        /\ Unwrap(get_position(state)).y > 0) => ~StepBelowZero

\* A move north has been emitted at y = 0 with the current tile absent from the grid.
SteppedBelowZero ==
    /\ pc = "act" /\ Moves /\ StepBelowZero
    /\ state.dungeon.tiles = <<>>

\* The neighbour lookup has run at the origin with the current tile absent.
LookedUpBelowZero ==
    PickedNeighbour /\ LookupBelowZero /\ state.dungeon.tiles = <<>>

(***************************************************************************)
(* The direction of a move and the edges of the current tile.              *)
(***************************************************************************)
\* determine_action has emitted a move from a known position.
MoveEmitted == Returned /\ Moves /\ IsSome(get_position(state))

\* The edge of the current tile in the direction of the move is open.
MovesThroughOpenEdge ==
    CASE action.direction = "North" -> get_current_tile(state.dungeon).north_passable
      [] action.direction = "East" -> get_current_tile(state.dungeon).east_passable
      [] action.direction = "South" -> get_current_tile(state.dungeon).south_passable
      [] action.direction = "West" -> get_current_tile(state.dungeon).west_passable

\* The tile the planner heads for is the tile stood on: the target of the
\* FindFight emitted, or the city tile of a retreat.
HeadsForCurrentTile ==
    \/ /\ action.tag = "FindFight"
       /\ Unwrap(action.target).position = Unwrap(get_position(state))
    \/ /\ action.tag = "ReturnToTown"
       /\ IsSome(get_city_tile(state.dungeon))
       /\ Unwrap(get_city_tile(state.dungeon)).position = Unwrap(get_position(state))

\* C34: every direction determine_action emits in FindFight and in
\* ReturnToTown(false, _) is one in which the current tile is passable, also
\* when the target or the city tile is the tile stood on.
C34_MovesThroughOpenEdges == MoveEmitted => MovesThroughOpenEdge

\* The same for the moves that head for another tile than the one stood on.
MovesElsewhereThroughOpenEdges ==
    (MoveEmitted /\ ~HeadsForCurrentTile) => MovesThroughOpenEdge

\* A move north has been emitted through a wall towards the tile stood on.
MovedIntoWall == MoveEmitted /\ HeadsForCurrentTile /\ ~MovesThroughOpenEdge

(***************************************************************************)
(* The two searches together.                                              *)
(***************************************************************************)
\* get_closest_unvisited_tile has returned a tile.
FoundTarget == pc \in {"found", "routed", "unroutable"}

\* get_next_tile_to_goal has been asked for the way to that tile.
RoutedToFound == pc \in {"routed", "unroutable"}

\* C35: a tile get_closest_unvisited_tile returns from a start inside the
\* playfield lies within 0..29 on both axes, and get_next_tile_to_goal from the
\* same start to that tile returns a tile.
C35_SearchesAgree ==
    /\ FoundTarget => InPlayfield(Unwrap(action.target).position)
    /\ RoutedToFound => pc = "routed"

\* The searches agree on every target inside the playfield, and on no other.
AgreeInsidePlayfield ==
    RoutedToFound => (pc = "routed" <=> InPlayfield(Unwrap(action.target).position))

\* A target one column east of the playfield has been found from the last
\* column, and there is no way to it for the goal-directed search.
FoundBeyondPlayfield ==
    /\ pc = "unroutable"
    /\ Unwrap(get_position(state)) = Coords(PLAYFIELD_MAX, 0)
    /\ Unwrap(action.target).position = Coords(PLAYFIELD_MAX + 1, 0)

\* A target inside the playfield has been found and routed to.
FoundAndRouted ==
    /\ pc = "routed"
    /\ Unwrap(action.target).position # Unwrap(get_position(state))
    /\ moved # None

(***************************************************************************)
(* The stuck counter over the ticks of the loop.                           *)
(***************************************************************************)
\* The counter of an action, as the loop carries it into the next tick.
CounterWithinLimit(a) == a.tag = "FindFight" => a.ticks \in 0..STUCK_LIMIT

EmittedFindFight == Returned /\ action.tag = "FindFight"

\* C36: the stuck counter of every emitted FindFight is between 0 and 30.  The
\* loop starts from CloseAd and hands each action to the next tick, so the
\* counter stays within the limit over any sequence of ticks if it does so
\* after one tick from CloseAd and from every FindFight within the limit.
C36_StuckCounterBounded ==
    (EmittedFindFight /\ CounterWithinLimit(last_action)) => CounterWithinLimit(action)

\* The counter had reached the limit on a target still ahead, no staircase
\* preempts, and the action emitted carries counter 1.
RepickedAtLimit ==
    /\ EmittedFindFight
    /\ Sticky
    /\ last_action.ticks = STUCK_LIMIT
    /\ ~StairsElsewhere
    /\ action.ticks = 1

\* The same over the ticks of the loop itself.
LoopCounterBounded == CounterWithinLimit(last_action) /\ CounterWithinLimit(action)

(***************************************************************************)
(* The position as the key of a tile.                                      *)
(***************************************************************************)
PositionsDistinct(tiles) ==
    \A i, j \in 1..Len(tiles) : i # j => tiles[i].position # tiles[j].position

SharedPositions(tiles, others) ==
    {tiles[i].position : i \in 1..Len(tiles)} \cap {others[i].position : i \in 1..Len(others)}

\* C37: in every state reachable from the default state through get_state and
\* run_action, no two tiles of the grid have the same position.
C37_OneTilePerPosition ==
    /\ PositionsDistinct(state.dungeon.tiles)
    /\ PositionsDistinct(old_state.dungeon.tiles)
    /\ PositionsDistinct(snapshot.dungeon.tiles)

\* get_state has merged a fresh grid into a previous one that holds some of
\* the same positions and one more.
MergedOverlappingGrids ==
    /\ pc = "determine"
    /\ ticks >= 1
    /\ SharedPositions(state.dungeon.tiles, snapshot.dungeon.tiles) # {}
    /\ Len(state.dungeon.tiles) >= 2

\* The same on merge alone, for every pair of grids with one tile per position.
MergeKeepsPositionsDistinct == PositionsDistinct(state.dungeon.tiles)

(***************************************************************************)
(* What run_action does to the grid.  In SpecAct snapshot is the state as  *)
(* run_action receives it.                                                 *)
(***************************************************************************)
TilesBefore == snapshot.dungeon.tiles
TilesAfter == state.dungeon.tiles

\* Every tile is still there, in its place, with every field but visited as it
\* was, and visited false.
VisitedCleared ==
    /\ Len(TilesAfter) = Len(TilesBefore)
    /\ \A i \in 1..Len(TilesBefore) :
          /\ ~TilesAfter[i].visited
          /\ [TilesAfter[i] EXCEPT !.visited = TilesBefore[i].visited] = TilesBefore[i]

\* C38: GoDown leaves the grid with no tiles, GotoDungeon sets visited to
\* false on every tile and leaves the set of tiles and every other field of
\* every tile unchanged, and every other action leaves the tiles unchanged.
C38_GridEffectOfActions ==
    Executed =>
        CASE action.tag = "GoDown" -> TilesAfter = <<>>
          [] action.tag = "GotoDungeon" -> VisitedCleared
          [] OTHER -> TilesAfter = TilesBefore

\* GotoDungeon has been executed on a grid with a visited tile.
ClearedVisitedGrid ==
    /\ Executed
    /\ action.tag = "GotoDungeon"
    /\ \E i \in 1..Len(TilesBefore) : TilesBefore[i].visited

\* GoDown has been executed on a grid with tiles.
DiscardedGrid ==
    /\ Executed
    /\ action.tag = "GoDown"
    /\ TilesBefore # <<>>

\* A move has been executed on a grid with tiles.
MovedOnGrid ==
    /\ Executed
    /\ action.tag = "FindFight"
    /\ TilesBefore # <<>>

(***************************************************************************)
(* Exploration of a static dungeon.                                        *)
(***************************************************************************)
RECURSIVE Region(_, _, _)
\* The tiles of the dungeon `n` steps through open edges lead to from `seen`.
Region(map, seen, n) ==
    IF n = 0 THEN seen
    ELSE Region(map, seen \cup UNION {{move_direction(p, d) : d \in map[p]} : p \in seen}, n - 1)

\* Every tile of the dungeon the party can walk to is visited in the grid.
AllReachableVisited ==
    \A p \in Region(world.map, {world.at}, Cardinality(DOMAIN world.map)) :
        get_tile(state.dungeon, p.x, p.y).visited

\* C39: with accurate screens and coordinates, moves that succeed exactly
\* through open edges, no fights, chests, deaths or stairs, repeated idle ticks
\* eventually leave every tile reachable from the starting tile visited.
C39_ExplorationCompletes == <>AllReachableVisited

ShowsNorthOfTwentyTwoFourteen == world.map = NorthOfTwentyTwoFourteen

\* Exploration completes in every dungeon but the one that shows tile
\* (22, 14) with its north edge open.
ExplorationCompletesElsewhere == <>(AllReachableVisited \/ ShowsNorthOfTwentyTwoFourteen)

\* The loop never gets past the first screen of that dungeon.
StopsAtTwentyTwoFourteen ==
    ShowsNorthOfTwentyTwoFourteen => (pc \in {"capture", "classify", "panicked"} /\ ticks = 0)

\* The junction has been explored to the end.
ExploredToTheEnd ==
    /\ AllReachableVisited
    /\ world.map = Junction
    /\ ticks >= 2

\* Inside a tick every step of the loop can be taken.
LoopCanStep ==
    pc = "determine" => determine_action(state, last_action, get_position(snapshot)) # {}
====
